---- MODULE Spec2Model ----
(***************************************************************************)
(* Model of the message pool's gas estimation (package messagepool):       *)
(* GasPriceCache, GasEstimateFeeCap, medianGasPremium,                     *)
(* GasEstimateGasPremium, evalMessageGasLimit, GasEstimateMessageGas and   *)
(* GasBatchEstimateMessageGas; and of the tipset height index (package     *)
(* chain): ChainIndex.GetTipSetByHeight, fillCache, walkBack.              *)
(*                                                                         *)
(* Representation.  TLC integers are 32 bit, so                            *)
(*  - a float64 multiplier of the send spec is a number of quarters        *)
(*    (q stands for q/4, exactly representable, so float64(x)*(q/4)        *)
(*    truncated to int64 is (x*q) \div 4 for the small x used here);       *)
(*  - the jitter noise is a number of 1024ths (j stands for j/1024);       *)
(*  - gas limits of chain messages (GasMeta.Limit) and BlockGasTarget are  *)
(*    counted in units of 10^6 gas; both divisions of medianGasPremium     *)
(*    are exact in that unit;                                              *)
(*  - a nil pointer is a record whose "nil" field is TRUE.                 *)
(***************************************************************************)
EXTENDS Integers, Sequences, FiniteSets, TLC

(* ------------------------------ bounds -------------------------------- *)
\* longest batch handed to GasBatchEstimateMessageGas (specification SpecBatch)
MaxBatch == 3
\* longest batch of specification Spec, whose messages and collaborators vary more
MaxShortBatch == 1
\* height of the highest tipset of the chain
MaxHeight == 2
\* largest start nonce of a batch
MaxStartNonce == 10
\* the tipsets of the longest chain
MaxChainLen == 56
\* the largest inclusion target asked for
MaxWindow == 30
MaxGetters == 3
MaxIndexHeight == 45

(* ------------------------- program constants -------------------------- *)
MinGasPremium == 100000
\* types.EmptyInt (a big.Int without value), kept apart from every amount
EmptyInt == -1
\* constants.BlockGasTarget, in units of 10^6 gas
BlockGasTarget == 5000
\* constants.BlockGasLimit, in the same unit
BlockGasLimit == 2 * BlockGasTarget
\* constants.BaseFeeMaxChangeDenom
BaseFeeMaxChangeDenom == 8
\* constants.MinimumBaseFee
MinimumBaseFee == 100
\* refund of DestroyActor added for a payment channel Collect
PaychCollectRefund == 76000
\* builtin.MethodSend and builtin2.MethodsPaych.Collect
MethodSend == 0
MethodsPaychCollect == 4
\* look-back window of the upgrade correction
UpgradeLookback == 20
\* inclusion target and delay window used by the estimation entry points
EstimateNBlocksIncl == 10
EstimateMaxQueueBlks == 20

VARIABLES
    chain,        \* chain[h+1]: the tipset of height h; the last one is the head
    upgradeHeight,\* mp.forkParams.UpgradeHyggeHeight
    cache,        \* GasPriceCache.c: its entries [key, meta], oldest first
    pc,           \* "idle", "batch" (inside the batch loop), "done", "hung"
    op,           \* the entry point called: "none", "single", "batch", "premium"
    input,        \* the estimate messages as the caller passed them
    msgs,         \* the caller's message objects, as the call has changed them
    fromNonce,    \* the batch's nonce counter
    startNonce,   \* the fromNonce argument of the batch call
    idx,          \* number of batch messages the loop has handled
    pending,      \* what PendingFor answered to the batch call
    priorMsgs,    \* the batch's prior-messages context
    results,      \* estimateResults of the batch
    ret,          \* what the call returned: "none", "ok", "err", "panic"
    io,           \* the external collaborator calls of the call, in order
    evals,        \* the CallWithGas invocations of the call, in order
    prem,         \* the premium computations of the call, in order
    fees,         \* the fee data of each message before and after CapGasFee
    errors,       \* the errors the call produced, in order
    getters,      \* the concurrent GetTSGasStats calls: where each one stands
    indexCache,   \* ChainIndex.indexCache: its entries [key, lbe]
    lastLookup    \* the last GetTipSetByHeight call and what it returned

vars == <<chain, upgradeHeight, cache, pc, op, input, msgs, fromNonce,
          startNonce, idx, pending, priorMsgs, results, ret, io, evals, prem, fees,
          errors, getters,
                   indexCache, lastLookup>>

(* ------------------------------ helpers ------------------------------- *)
Min(a, b) == IF a <= b THEN a ELSE b
Max(a, b) == IF a >= b THEN a ELSE b

RECURSIVE Pow(_, _)
Pow(b, n) == IF n = 0 THEN 1 ELSE b * Pow(b, n - 1)

\* float64(x) * (q/4) truncated to int64
MulQuarters(x, q) == (x * q) \div 4

(* ------------------------- GasEstimateFeeCap -------------------------- *)
\* Little-endian digits in base BaseFeeMaxChangeDenom of ds * k + carry.
RECURSIVE MulDigits(_, _, _)
MulDigits(ds, k, carry) ==
    IF ds = <<>>
    THEN IF carry = 0 THEN <<>>
         ELSE <<carry % BaseFeeMaxChangeDenom>>
              \o MulDigits(<<>>, k, carry \div BaseFeeMaxChangeDenom)
    ELSE LET v == Head(ds) * k + carry
         IN  <<v % BaseFeeMaxChangeDenom>>
             \o MulDigits(Tail(ds), k, v \div BaseFeeMaxChangeDenom)

RECURSIVE DigitsValue(_)
DigitsValue(ds) ==
    IF ds = <<>> THEN 0
    ELSE Head(ds) + BaseFeeMaxChangeDenom * DigitsValue(Tail(ds))

\* digits of (1<<8) * (BaseFeeMaxChangeDenom + 1)^n
RECURSIVE ScaledPowDigits(_)
ScaledPowDigits(n) ==
    IF n = 0 THEN MulDigits(<<1>>, Pow(2, 8), 0)
    ELSE MulDigits(ScaledPowDigits(n - 1), BaseFeeMaxChangeDenom + 1, 0)

\* uint64(math.Pow(1 + 1/BaseFeeMaxChangeDenom, maxqueueblks) * (1<<8)):
\* the floor of (1<<8) * (denom+1)^n / denom^n, computed exactly by dropping
\* the n lowest base-denom digits (the float64 product has the same floor
\* for every n up to 24).
IncreaseFactorOf(maxqueueblks) ==
    LET ds == ScaledPowDigits(maxqueueblks)
    IN  IF Len(ds) <= maxqueueblks THEN 0
        ELSE DigitsValue(SubSeq(ds, maxqueueblks + 1, Len(ds)))

\* the same, computed once for every delay window in use
IncreaseFactorTable == [n \in 0..EstimateMaxQueueBlks |-> IncreaseFactorOf(n)]

IncreaseFactorFP(maxqueueblks) == IncreaseFactorTable[maxqueueblks]

\* The fee cap computed once ChainHead has succeeded.
\* the projected base fee alone, the message's premium not added
FeeCapNoPremium(parentBaseFee, maxqueueblks, gasPremium) ==
    (parentBaseFee * IncreaseFactorFP(maxqueueblks)) \div Pow(2, 8)

FeeCapOf(parentBaseFee, maxqueueblks, gasPremium) ==
    LET feeInFuture == parentBaseFee * IncreaseFactorFP(maxqueueblks)
        out == feeInFuture \div Pow(2, 8)
    IN  IF gasPremium # EmptyInt THEN out + gasPremium ELSE out

\* math/big values and uint64 values wider than the model's integers: the
\* limbs of the value in base LimbBase, lowest first, no leading zero limb.
LimbBase == Pow(2, 15)

RECURSIVE LimbsOf(_)
LimbsOf(n) == IF n = 0 THEN <<>> ELSE <<n % LimbBase>> \o LimbsOf(n \div LimbBase)

RECURSIVE Trim(_)
Trim(a) ==
    IF a = <<>> \/ a[Len(a)] # 0 THEN a ELSE Trim(SubSeq(a, 1, Len(a) - 1))

\* types.BigMul(a, k) + carry, for k below LimbBase
RECURSIVE LimbsMul(_, _, _)
LimbsMul(a, k, carry) ==
    IF a = <<>> THEN LimbsOf(carry)
    ELSE LET v == Head(a) * k + carry
         IN  Trim(<<v % LimbBase>> \o LimbsMul(Tail(a), k, v \div LimbBase))

\* types.BigAdd(a, b) + carry
RECURSIVE LimbsAdd(_, _, _)
LimbsAdd(a, b, carry) ==
    IF a = <<>> /\ b = <<>> THEN LimbsOf(carry)
    ELSE LET x == IF a = <<>> THEN 0 ELSE Head(a)
             y == IF b = <<>> THEN 0 ELSE Head(b)
             v == x + y + carry
         IN  <<v % LimbBase>>
             \o LimbsAdd(IF a = <<>> THEN a ELSE Tail(a),
                         IF b = <<>> THEN b ELSE Tail(b), v \div LimbBase)

\* types.BigDiv(a, types.NewInt(1<<8))
LimbsDiv256(a) ==
    Trim([i \in 1..Len(a) |->
            (a[i] \div Pow(2, 8))
            + (IF i < Len(a) THEN (a[i + 1] % Pow(2, 8)) * (LimbBase \div Pow(2, 8))
               ELSE 0)])

RECURSIVE LimbsLess(_, _)
LimbsLess(a, b) ==
    IF Len(a) # Len(b) THEN Len(a) < Len(b)
    ELSE IF a = <<>> THEN FALSE
    ELSE IF a[Len(a)] # b[Len(b)] THEN a[Len(a)] < b[Len(b)]
    ELSE LimbsLess(SubSeq(a, 1, Len(a) - 1), SubSeq(b, 1, Len(b) - 1))

\* The largest delay window for which math.Pow(1 + 1/8, maxqueueblks) * (1<<8)
\* is below 2^64 and so has a uint64 value.
Uint64Delay == 329

\* uint64(math.Pow(1 + 1/8, Uint64Delay) * (1<<8)) = 17275071378429106176:
\* (9/8)^329 rounded to the 53 bits of a float64, times 256.
Uint64DelayFactor == <<22528, 27025, 1936, 32235, 14>>

\* A float64 of 2^64 or more, +Inf included, has no uint64 value; Go leaves
\* the result of the conversion to the implementation.  The builds in use
\* give 1<<63 (amd64) or the largest uint64 (arm64).
Conversions == {"highbit", "saturate"}
OutOfRangeUint64(conv) ==
    IF conv = "highbit" THEN <<0, 0, 0, 0, Pow(2, 3)>>
    ELSE <<LimbBase - 1, LimbBase - 1, LimbBase - 1, LimbBase - 1, Pow(2, 4) - 1>>

\* uint64(increaseFactor * (1<<8)) for the delay windows of the model
IncreaseFactorLimbs(maxqueueblks, conv) ==
    CASE maxqueueblks <= EstimateMaxQueueBlks ->
            LimbsOf(IncreaseFactorFP(maxqueueblks))
      [] maxqueueblks = Uint64Delay -> Uint64DelayFactor
      [] maxqueueblks > Uint64Delay -> OutOfRangeUint64(conv)

\* GasEstimateFeeCap once ChainHead has succeeded, for any delay window
GasEstimateFeeCap(parentBaseFee, maxqueueblks, gasPremium, conv) ==
    LET feeInFuture ==
            LimbsMul(IncreaseFactorLimbs(maxqueueblks, conv), parentBaseFee, 0)
        out == LimbsDiv256(feeInFuture)
    IN  IF gasPremium # EmptyInt THEN LimbsAdd(out, LimbsOf(gasPremium), 0) ELSE out

\* one call of an external collaborator and how it ended ("ok", "err", and for
\* CallWithGas also "fork" (ErrExpensiveFork) and "exit" (exit code not Ok))
Call(name, key, res) == [call |-> name, key |-> key, res |-> res]
OkOrErr(failed) == IF failed THEN "err" ELSE "ok"

(* -------------------------- medianGasPremium -------------------------- *)
RemoveAt(s, i) == SubSeq(s, 1, i - 1) \o SubSeq(s, i + 1, Len(s))

MaxPrice(prices) ==
    CHOOSE m \in {prices[i].Price : i \in 1..Len(prices)} :
        \A i \in 1..Len(prices) : prices[i].Price <= m

\* sort.Slice with "price greater than" as the order: every arrangement that
\* is descending by price (sort.Slice is not stable, so entries of equal
\* price may end in any relative order; of equal entries the first stands
\* for all, the arrangements being the same).
RECURSIVE SortOutcomes(_)
SortOutcomes(prices) ==
    IF prices = <<>> THEN {<<>>}
    ELSE UNION { { <<prices[i]>> \o rest : rest \in SortOutcomes(RemoveAt(prices, i)) }
                 : i \in {k \in 1..Len(prices) :
                             /\ prices[k].Price = MaxPrice(prices)
                             /\ \A j \in 1..(k - 1) : prices[j] # prices[k]} }

\* the loop never breaks: <<prev1, prev2>> are the last two prices
RECURSIVE MedianWalkToEnd(_, _, _, _)
MedianWalkToEnd(prices, at, prev1, prev2) ==
    IF prices = <<>> THEN <<prev1, prev2>>
    ELSE MedianWalkToEnd(Tail(prices), at - Head(prices).Limit, Head(prices).Price,
                         prev1)

\* The loop of lines 109-115: <<prev1, prev2>> when it ends.
RECURSIVE MedianWalk(_, _, _, _)
MedianWalk(prices, at, prev1, prev2) ==
    IF prices = <<>> THEN <<prev1, prev2>>
    ELSE LET price == Head(prices)
         IN  IF at - price.Limit < 0 THEN <<price.Price, prev1>>
             ELSE MedianWalk(Tail(prices), at - price.Limit, price.Price, prev1)

\* medianGasPremium on the list as sort.Slice left it.
medianGasPremium(sorted, blocks) ==
    LET at == (BlockGasTarget * blocks) \div 2 + (BlockGasTarget * blocks) \div (2 * 20)
        p == MedianWalk(sorted, at, 0, 0)
    IN  IF p[2] # 0 THEN (p[1] + p[2]) \div 2 ELSE p[1]

(* ------------------------ GasEstimateGasPremium ----------------------- *)
\* lines 167-176
\* no floor: the median is used as it is
FloorPolicyNone(premium, nblocksincl) == premium

FloorPolicy(premium, nblocksincl) ==
    IF premium < MinGasPremium
    THEN CASE nblocksincl = 1 -> 2 * MinGasPremium
           [] nblocksincl = 2 -> (3 * MinGasPremium) \div 2
           [] OTHER -> MinGasPremium
    ELSE premium

\* lines 181-183 for noise = j/1024: uint64(noise*(1<<32))+1 is j*2^22+1, and
\* (premium*(j*2^22+1)) \div 2^32 equals (premium*j) \div 1024 for every
\* premium below 2^22.
Jitter(premium, j) == (premium * j) \div 1024

TipSetAt(h) == chain[h + 1]
ChainHeadHeight == Len(chain) - 1

\* lru.New2Q(50) of line 41: the number of tipsets the cache holds
GasPriceCacheSize == 50

\* c.Get(key): the positions of the entry of the key in cache c (at most one)
CacheHits(c, key) == {i \in 1..Len(c) : c[i].key = key}

\* c.Add(key, prices) for a key the cache does not hold: a full cache drops
\* an entry first.  The cache is the list of its entries, oldest first, and
\* the entry dropped is the oldest one.
CacheAdd(c, key, prices) ==
    Append(IF Len(c) >= GasPriceCacheSize THEN Tail(c) ELSE c,
           [key |-> key, meta |-> prices])

\* the cache is never consulted: every call asks the loader
GetTSGasStatsNoCache(c, pts, loaderFails) ==
    [err |-> loaderFails, loaded |-> TRUE,
     meta |-> IF loaderFails THEN <<>> ELSE pts.Msgs,
     cache |-> IF loaderFails THEN c ELSE CacheAdd(c, pts.Height, pts.Msgs)]

\* GasPriceCache.GetTSGasStats(ts) on cache c (lines 52-73).  The key of a
\* tipset is its height.  loaded: MessagesForTipset was called; loaderFails:
\* what it answers when it is called.
GetTSGasStats(c, pts, loaderFails) ==
    IF CacheHits(c, pts.Height) # {}
    THEN [err |-> FALSE, loaded |-> FALSE,
          meta |-> c[CHOOSE i \in CacheHits(c, pts.Height) : TRUE].meta,
          cache |-> c]
    ELSE [err |-> loaderFails, loaded |-> TRUE,
          meta |-> IF loaderFails THEN <<>> ELSE pts.Msgs,
          cache |-> IF loaderFails THEN c ELSE CacheAdd(c, pts.Height, pts.Msgs)]

\* no tipset key
NoKey == -1

\* c.Add(key, prices) of line 70 when other calls add to the cache at the
\* same time: an entry the cache already holds for the key is replaced
CachePut(c, key, prices) ==
    IF CacheHits(c, key) = {} THEN CacheAdd(c, key, prices)
    ELSE LET i == CHOOSE k \in CacheHits(c, key) : TRUE
         IN  Append(SubSeq(c, 1, i - 1) \o SubSeq(c, i + 1, Len(c)),
                    [key |-> key, meta |-> prices])

\* every tip gets the list of the chain head
LoadedPricesOfHead(h) == TipSetAt(ChainHeadHeight).Msgs

\* lines 57-68: the list built from the messages the provider has for tip h
LoadedPrices(h) == TipSetAt(h).Msgs

\* a GetTSGasStats call that has not begun
IdleGetter ==
    [pc |-> "idle", ts |-> NoKey, prices |-> <<>>, err |-> FALSE, loaded |-> FALSE]

\* an empty accumulated list takes over the array of the list appended to it
SharedWithFirst(prices, key) == IF prices = <<>> THEN key ELSE NoKey

\* line 160, prices = append(prices, meta...): the key of the cached list
\* whose array the accumulated list shares afterwards.  append copies the
\* elements of meta into the array of prices, a new array when prices is nil
\* or full, so no cached list is shared.
SharedWith(prices, key) == NoKey

\* the cache after sort.Slice (line 101) has rearranged the accumulated list:
\* a cached list that shares its array is rearranged with it
AfterSort(c, shared, sorted) ==
    [i \in 1..Len(c) |->
        IF c[i].key = shared
        THEN [c[i] EXCEPT !.meta = SubSeq(sorted, 1, Len(c[i].meta))]
        ELSE c[i]]

\* The walk of lines 145-163 from the tipset of height h, i parents visited so
\* far.  env.loadErrAt = k: the k-th LoadTipSet fails; env.msgsErrAt = k: the
\* tip-loader (MessagesForTipset) fails for the k-th visited tipset when it is
\* asked (GetTSGasStats asks it on a cache miss only, and caches on success).
RECURSIVE WalkTips(_, _, _, _, _)
WalkTips(h, i, limit, env, acc) ==
    IF i >= limit \/ h = 0 THEN acc
    ELSE LET pts == TipSetAt(h - 1)
             k == pts.Height
             calls1 == Append(acc.calls,
                              Call("LoadTipSet", k, OkOrErr(env.loadErrAt = i + 1)))
         IN  IF env.loadErrAt = i + 1
             THEN [acc EXCEPT !.err = TRUE, !.calls = calls1]
             ELSE LET g == GetTSGasStats(acc.cache, pts, env.msgsErrAt = i + 1)
                      calls2 == IF g.loaded
                                THEN Append(calls1, Call("MessagesForTipset", k,
                                                         OkOrErr(g.err)))
                                ELSE calls1
                      stats2 == Append(acc.stats, [key |-> k, loaded |-> g.loaded,
                                                   err |-> g.err, meta |-> g.meta])
                  IN  IF g.err
                      THEN [acc EXCEPT !.err = TRUE, !.calls = calls2,
                                       !.stats = stats2]
                      ELSE WalkTips(k, i + 1, limit, env,
                               [acc EXCEPT !.blocks = @ + pts.Blocks,
                                           !.prices = @ \o g.meta,
                                           !.cache = g.cache,
                                           !.shared = IF @ # NoKey THEN @
                                                      ELSE SharedWith(acc.prices, k),
                                           !.calls = calls2,
                                           !.stats = stats2])

\* an inclusion target of 0 stays 0
EffectiveWindowAsGiven(nblocksincl) == nblocksincl

\* lines 133-135
EffectiveWindow(nblocksincl) == IF nblocksincl = 0 THEN 1 ELSE nblocksincl

\* the walk goes on for three parents per block of the inclusion target
WalkLimitTriple(nblocksincl) == nblocksincl * 3

\* the bound of the loop of line 145
WalkLimit(nblocksincl) == nblocksincl * 2

\* GasEstimateGasPremium: the set of its possible outcomes (one per
\* arrangement sort.Slice may produce).  env.headErr: ChainHead fails;
\* env.noise: the jitter draw.
GasEstimateGasPremium(nblocksinclIn, c, env) ==
    LET nblocksincl == EffectiveWindow(nblocksinclIn)
        call0 == <<Call("ChainHead", ChainHeadHeight, OkOrErr(env.headErr))>>
        failed(calls, cc) ==
            [err |-> TRUE, premium |-> EmptyInt, nblocksincl |-> nblocksincl,
             asked |-> nblocksinclIn,
             median |-> 0, floored |-> 0, noise |-> env.noise,
             cache |-> cc, calls |-> calls, stats |-> <<>>, sorted |-> <<>>]
    IN  IF env.headErr THEN {failed(call0, c)}
        ELSE LET w == WalkTips(ChainHeadHeight, 0, WalkLimit(nblocksincl), env,
                          [err |-> FALSE, prices |-> <<>>, blocks |-> 0,
                           cache |-> c, calls |-> call0, stats |-> <<>>,
                           shared |-> NoKey])
             IN  IF w.err THEN {failed(w.calls, w.cache)}
                 ELSE { LET median == medianGasPremium(sorted, w.blocks)
                            floored == FloorPolicy(median, nblocksincl)
                        IN  [err |-> FALSE, premium |-> Jitter(floored, env.noise),
                             nblocksincl |-> nblocksincl, asked |-> nblocksinclIn,
                             median |-> median, floored |-> floored,
                             noise |-> env.noise,
                             cache |-> AfterSort(w.cache, w.shared, sorted),
                             calls |-> w.calls,
                             stats |-> w.stats, sorted |-> sorted]
                        : sorted \in SortOutcomes(w.prices) }

(* ------------------------- evalMessageGasLimit ------------------------ *)
\* msg of lines 266-269: the message handed to CallWithGas
ProbeOf(msgIn) ==
    [msgIn EXCEPT !.GasLimit = BlockGasLimit, !.GasFeeCap = 0, !.GasPremium = 0]

\* the retry skips a generation
ParentOfSkip(h) == IF h = 0 THEN ChainHeadHeight ELSE Max(h - 2, 0)

\* mp.api.ChainTipSet(ctx, ts.Parents()) for the tipset of height h.  The
\* genesis tipset has no parents: its Parents() is the empty key, for which
\* ChainTipSet answers the head (line 409).
ParentOf(h) == IF h = 0 THEN ChainHeadHeight ELSE h - 1

\* the heights at which CallWithGas answers ErrExpensiveFork
ForkAt(env) ==
    CASE env.fork = "none" -> {}
      [] env.fork = "head" -> {ChainHeadHeight}
      [] env.fork = "all" -> 0..ChainHeadHeight

\* The loop of lines 274-284 with the target at height h.  env.forkAt: the
\* heights at which CallWithGas answers fork.ErrExpensiveFork; env.tipErr:
\* loading the parent fails; seen: the targets tried so far (the evaluator
\* answers the same at the same target, so a target tried twice means the
\* loop never ends).
RECURSIVE EvalLoop(_, _, _, _, _)
EvalLoop(h, seen, calls, ioCalls, env) ==
    LET calls1 == Append(calls, h)
        io1 == Append(ioCalls, Call("CallWithGas", h,
                                    IF h \in ForkAt(env) THEN "fork" ELSE env.eval))
    IN  IF h \notin ForkAt(env)
        THEN [end |-> "called", ts |-> h, calls |-> calls1, io |-> io1]
        ELSE LET io2 == Append(io1, Call("ChainTipSet", ParentOf(h), OkOrErr(env.tipErr)))
             IN  IF env.tipErr
                 THEN [end |-> "tiperr", ts |-> h, calls |-> calls1, io |-> io2]
                 ELSE IF ParentOf(h) \in seen \cup {h}
                 THEN [end |-> "hung", ts |-> h, calls |-> calls1, io |-> io2]
                 ELSE EvalLoop(ParentOf(h), seen \cup {h}, calls1, io2, env)

\* The multipliers of lines 318-338, in hundredths.
MinerMethodMulti(method) ==
    CASE method = 3 -> 192
      [] method = 4 -> 172
      [] method = 6 -> 106
      [] method = 7 -> 120
      [] method = 16 -> 119
      [] method = 18 -> 173
      [] method = 23 -> 173
      [] method = 26 -> 115
      [] method = 27 -> 118
      [] OTHER -> 100

\* the window has no lower end: tips above the upgrade height are corrected
TransitionalMultiPastUpgrade(msgIn, tsHeight, lookup) ==
    IF upgradeHeight - tsHeight <= UpgradeLookback
    THEN IF msgIn.Method = MethodSend THEN 300
         ELSE IF lookup # "ok" \/ msgIn.To = "missing" THEN 100
         ELSE IF msgIn.To = "miner" THEN MinerMethodMulti(msgIn.Method)
         ELSE 100
    ELSE 100

\* transitionalMulti of lines 295-342, in hundredths.  The destination address
\* of a message is named after the actor the state tree holds for it
\* ("missing": none).  lookup: "ok", or the lookup that fails ("state" for
\* ParentState, "actor" for GetActor).
TransitionalMulti(msgIn, tsHeight, lookup) ==
    IF tsHeight <= upgradeHeight /\ upgradeHeight - tsHeight <= UpgradeLookback
    THEN IF msgIn.Method = MethodSend THEN 300
         ELSE IF lookup # "ok" \/ msgIn.To = "missing" THEN 100
         ELSE IF msgIn.To = "miner" THEN MinerMethodMulti(msgIn.Method)
         ELSE 100
    ELSE 100

\* the refund added whether or not the lookups succeeded
RefundDespiteFailure(msgIn, lookup) ==
    IF msgIn.To = "paych" /\ msgIn.Method = MethodsPaychCollect
    THEN PaychCollectRefund ELSE 0

\* lines 348-355
Refund(msgIn, lookup) ==
    IF lookup = "ok" /\ msgIn.To = "paych" /\ msgIn.Method = MethodsPaychCollect
    THEN PaychCollectRefund ELSE 0

\* lines 293-357: the gas returned for a successful receipt
CorrectedGas(msgIn, tsHeight, gasUsed, env) ==
    LET multi == TransitionalMulti(msgIn, tsHeight, env.corrLookup)
        corrected == (gasUsed * ((multi * 1024) \div 100)) \div Pow(2, 10)
    IN  corrected + Refund(msgIn, env.refundLookup)

\* The state lookups evalMessageGasLimit makes after a successful receipt.
LookupCalls(msgIn, tsHeight, env) ==
    LET one(lookup) == IF lookup = "state"
                       THEN <<Call("ParentState", tsHeight, "err")>>
                       ELSE <<Call("ParentState", tsHeight, "ok"),
                              Call("GetActor", tsHeight, OkOrErr(lookup = "actor"))>>
        inWindow == tsHeight <= upgradeHeight
                    /\ upgradeHeight - tsHeight <= UpgradeLookback
    IN  (IF inWindow /\ msgIn.Method # MethodSend THEN one(env.corrLookup) ELSE <<>>)
        \o one(env.refundLookup)

\* exitcode.Ok, and the exit code and the reason of a receipt that failed
ExitOk == "Ok"
ExitFailed == "SysErrOutOfGas"
ReasonFailed == "out of gas"

\* res of line 275 when CallWithGas returned no error
ReceiptOf(env) ==
    IF env.eval = "exit"
    THEN [ExitCode |-> ExitFailed, Error |-> ReasonFailed, GasUsed |-> env.gasUsed]
    ELSE [ExitCode |-> ExitOk, Error |-> "", GasUsed |-> env.gasUsed]

\* an error value: its text and, for a failed execution, the exit code and
\* the reason it was formatted with
ErrorOf(text) == [text |-> text, exit |-> "", reason |-> ""]
NoError == ErrorOf("none")

\* the error drops what the receipt said
ExecutionFailedBare(res) == ErrorOf("message execution failed")

\* line 290
ExecutionFailed(res) ==
    [text |-> "message execution failed", exit |-> res.ExitCode, reason |-> res.Error]

\* an error wrapped by a caller (fmt.Errorf("<step>: %w", err)) for the
\* message at position pos; gas: the gas value returned along with the error
\* by the gas limit step (0 for the other steps)
Wrap(pos, step, err, gas) ==
    [pos |-> pos, step |-> step, text |-> err.text, exit |-> err.exit,
     reason |-> err.reason, gas |-> gas]

\* lines 285-357: what evalMessageGasLimit returns once its loop has ended as
\* l says and res is the receipt of the last CallWithGas
Returned(msgIn, l, res, env) ==
    LET fail(e) == [gas |-> -1, err |-> e, hung |-> FALSE, io |-> l.io]
    IN  IF l.end = "hung"
        THEN [gas |-> -1, err |-> NoError, hung |-> TRUE, io |-> l.io]
        ELSE IF l.end = "tiperr" THEN fail(ErrorOf("getting parent tipset"))
        ELSE IF env.eval = "err" THEN fail(ErrorOf("CallWithGas failed"))
        ELSE IF res.ExitCode # ExitOk THEN fail(ExecutionFailed(res))
        ELSE [gas |-> CorrectedGas(msgIn, l.ts, res.GasUsed, env),
              err |-> NoError, hung |-> FALSE,
              io |-> l.io \o LookupCalls(msgIn, l.ts, env)]

\* the CallWithGas invocations of the loop; the last one of a successful
\* evaluation holds the gas the receipt reported, the transitionalMulti of
\* line 341 (in hundredths) and the gas returned
EvalRecords(msgIn, prior, l, res, r, env) ==
    [i \in 1..Len(l.calls) |->
        IF i = Len(l.calls) /\ r.err = NoError /\ ~r.hung
        THEN [msg |-> ProbeOf(msgIn), prior |-> prior, ts |-> l.calls[i],
              res |-> env.eval, gasUsed |-> res.GasUsed,
              multi |-> TransitionalMulti(msgIn, l.ts, env.corrLookup),
              gas |-> r.gas]
        ELSE [msg |-> ProbeOf(msgIn), prior |-> prior, ts |-> l.calls[i],
              res |-> IF l.calls[i] \in ForkAt(env) THEN "fork" ELSE env.eval,
              gasUsed |-> -1, multi |-> -1, gas |-> -1]]

WithRecords(r, l, evs) ==
    [gas |-> r.gas, err |-> r.err, hung |-> r.hung, ts |-> l.ts, evals |-> evs,
     io |-> r.io]

WithReturned(msgIn, prior, l, res, r, env) ==
    WithRecords(r, l, EvalRecords(msgIn, prior, l, res, r, env))

AfterLoop(msgIn, prior, l, res, env) ==
    WithReturned(msgIn, prior, l, res, Returned(msgIn, l, res, env), env)

\* evalMessageGasLimit(msgIn, priorMsgs, ts).  env.eval: what CallWithGas
\* answers where it does not answer ErrExpensiveFork: "ok" (exit code Ok,
\* env.gasUsed), "exit" (another exit code) or "err" (another error).
evalMessageGasLimit(msgIn, prior, tsHeight, env) ==
    AfterLoop(msgIn, prior, EvalLoop(tsHeight, {}, <<>>, <<>>, env), ReceiptOf(env),
              env)

(* ----------------------------- ChainIndex ----------------------------- *)
\* ci.skipLength (line 42)
skipLength == 20

\* A tipset key is the position of the tipset in chain, the genesis tipset
\* first; the parent of the tipset at position k is the one at k - 1.  A
\* chain with null rounds has heights without a tipset.
HeightOf(k) == chain[k].Height

\* what a lookup returns: the tipset found, or an error
IndexOk(k) == [err |-> "", ts |-> k]
IndexErr(text) == [err |-> text, ts |-> 0]

\* the loop of walkBack (lines 176-192).  loadFails: what ci.loadTipSet
\* answers during the call
RECURSIVE WalkLoop(_, _, _)
WalkLoop(ts, to, loadFails) ==
    IF loadFails THEN IndexErr("failed to load tipset")
    ELSE IF to > HeightOf(ts - 1) THEN IndexOk(ts)
    ELSE IF to = HeightOf(ts - 1) THEN IndexOk(ts - 1)
    ELSE WalkLoop(ts - 1, to, loadFails)

\* walkBack(from, to), lines 165-193
walkBack(from, to, loadFails) ==
    IF to > HeightOf(from)
    THEN IndexErr("looking for tipset with height greater than start point")
    ELSE IF to = HeightOf(from) THEN IndexOk(from)
    ELSE WalkLoop(from, to, loadFails)

\* GetTipsetByHeightWithoutCache(from, to), lines 98-101
GetTipsetByHeightWithoutCache(from, to, loadFails) == walkBack(from, to, loadFails)

\* roundHeight(h), lines 150-152
roundHeight(h) == (h \div skipLength) * skipLength

RoundedOr(r) == IF r.err # "" THEN IndexErr("failed to walk back") ELSE r

\* roundDown(ts), lines 154-163
roundDown(ts, loadFails) ==
    RoundedOr(walkBack(ts, roundHeight(HeightOf(ts)), loadFails))

lbEntry(targetHeight, target) == [targetHeight |-> targetHeight, target |-> target]
NoEntry == lbEntry(-1, 0)

Filled(c, tsk, skipTarget) ==
    IF skipTarget.err # ""
    THEN [err |-> "fillCache walkback", lbe |-> NoEntry, cache |-> c]
    ELSE [err |-> "", lbe |-> lbEntry(HeightOf(skipTarget.ts), skipTarget.ts),
          cache |-> c \cup {[key |-> tsk,
                             lbe |-> lbEntry(HeightOf(skipTarget.ts), skipTarget.ts)]}]

\* the entry says the rounded height, whatever tipset it points at
FilledAtRoundedHeight(c, tsk, rheight, skipTarget) ==
    IF skipTarget.err # ""
    THEN [err |-> "fillCache walkback", lbe |-> NoEntry, cache |-> c]
    ELSE [err |-> "", lbe |-> lbEntry(rheight, skipTarget.ts),
          cache |-> c \cup {[key |-> tsk, lbe |-> lbEntry(rheight, skipTarget.ts)]}]

fillCacheAtRoundedHeight(c, tsk, loadFails) ==
    IF loadFails THEN [err |-> "failed to load tipset", lbe |-> NoEntry, cache |-> c]
    ELSE IF HeightOf(tsk) = 0 THEN [err |-> "", lbe |-> lbEntry(0, tsk), cache |-> c]
    ELSE FilledAtRoundedHeight(c, tsk,
             Max(roundHeight(HeightOf(tsk)) - skipLength, 0),
             IF HeightOf(tsk - 1) < Max(roundHeight(HeightOf(tsk)) - skipLength, 0)
             THEN IndexOk(tsk - 1)
             ELSE walkBack(tsk - 1, Max(roundHeight(HeightOf(tsk)) - skipLength, 0),
                           loadFails))

\* fillCache(tsk) on index cache c, lines 103-147: the entry and the cache
\* after it
fillCache(c, tsk, loadFails) ==
    IF loadFails THEN [err |-> "failed to load tipset", lbe |-> NoEntry, cache |-> c]
    ELSE IF HeightOf(tsk) = 0 THEN [err |-> "", lbe |-> lbEntry(0, tsk), cache |-> c]
    ELSE Filled(c, tsk,
             IF HeightOf(tsk - 1) < Max(roundHeight(HeightOf(tsk)) - skipLength, 0)
             THEN IndexOk(tsk - 1)
             ELSE walkBack(tsk - 1, Max(roundHeight(HeightOf(tsk)) - skipLength, 0),
                           loadFails))

\* ci.indexCache[cur], line 69
IndexHits(c, cur) == {e \in c : e.key = cur}

WithCache(r, c) == [err |-> r.err, ts |-> r.ts, cache |-> c]

\* What a call of GetTipSetByHeight ends with.  hops: the keys the loop of
\* lines 68-95 looked up, in order.  hung: the loop came back to the key it
\* had just looked up with the cache as it was, and so never returns.
\* indexCacheLk: the lock of line 65 when the call is over; the deferred
\* Unlock of line 66 runs when the function returns.
Ended(r, hops) ==
    [err |-> r.err, ts |-> r.ts, cache |-> r.cache, hops |-> hops, hung |-> FALSE,
     indexCacheLk |-> "free"]

NeverEnds(c, hops) ==
    [err |-> "", ts |-> 0, cache |-> c, hops |-> hops, hung |-> TRUE,
     indexCacheLk |-> "held"]

\* the loop of GetTipSetByHeight, lines 68-95, from the entry fc of cur on
RECURSIVE IndexLoop(_, _, _, _, _)
IndexStep(fc, cur, to, loadFails, hops) ==
    IF fc.err # ""
    THEN Ended(WithCache(IndexErr("failed to fill cache"), fc.cache), hops)
    ELSE IF to = fc.lbe.targetHeight
    THEN Ended(WithCache(IF loadFails THEN IndexErr("failed to load tipset")
                         ELSE IndexOk(fc.lbe.target), fc.cache), hops)
    ELSE IF to > fc.lbe.targetHeight
    THEN Ended(WithCache(IF loadFails THEN IndexErr("failed to load tipset")
                         ELSE walkBack(cur, to, loadFails), fc.cache), hops)
    ELSE IF fc.lbe.target = cur /\ fc.cache = fc.before
    THEN NeverEnds(fc.cache, hops)
    ELSE IndexLoop(fc.cache, fc.lbe.target, to, loadFails, hops)

\* lines 69-76: the entry of cur, from the cache or filled in
EntryOf(c, cur, loadFails) ==
    IF IndexHits(c, cur) = {} THEN fillCache(c, cur, loadFails) @@ [before |-> c]
    ELSE [err |-> "", lbe |-> (CHOOSE e \in IndexHits(c, cur) : TRUE).lbe,
          cache |-> c, before |-> c]

IndexLoop(c, cur, to, loadFails, hops) ==
    IndexStep(EntryOf(c, cur, loadFails), cur, to, loadFails, Append(hops, cur))

AfterRoundDown(c, rounded, to, loadFails) ==
    IF rounded.err # ""
    THEN Ended(WithCache(IndexErr("failed to round down"), c), <<>>)
    ELSE IndexLoop(c, rounded.ts, to, loadFails, <<>>)

\* GetTipSetByHeight(from, to) on index cache c, lines 51-96
GetTipSetByHeight(c, from, to, loadFails) ==
    IF HeightOf(from) - to <= skipLength
    THEN Ended(WithCache(walkBack(from, to, loadFails), c), <<>>)
    ELSE AfterRoundDown(c, roundDown(from, loadFails), to, loadFails)

\* no lookup yet
NoLookup ==
    [from |-> 0, to |-> 0, loadFails |-> FALSE, before |-> {}, err |-> "", ts |-> 0,
     cache |-> {}, hops |-> <<>>, hung |-> FALSE, indexCacheLk |-> "free"]

(* ------------------------------ CapGasFee ----------------------------- *)
\* The fee cap after the spend cap: when GasLimit * GasFeeCap exceeds maxFee
\* the fee cap is reduced to maxFee / GasLimit, but not below the premium.
\* (GasLimit * GasFeeCap > maxFee is GasFeeCap > maxFee \div GasLimit for a
\* positive GasLimit.)
CapGasFee(maxFee, msg) ==
    IF msg.GasLimit > 0 /\ msg.GasFeeCap > maxFee \div msg.GasLimit
    THEN [msg EXCEPT !.GasFeeCap =
              Min(msg.GasFeeCap, Max(maxFee \div msg.GasLimit, msg.GasPremium))]
    ELSE msg

(* --------------------- the fee steps of an estimation ------------------ *)
\* mp.GetConfig().GasLimitOverestimation, in quarters
GasLimitOverestimation == 5

\* every amount is taken for missing and filled again
UnsetAlways(amount) == TRUE

\* lines 377, 391, 446, 465: the amount is the empty sentinel or zero
Unset(amount) == amount = EmptyInt \/ amount = 0

\* lines 382-387 and 456-461: the premium scaled by the spec's GasOverPremium
OverPremium(gasPremium, em) ==
    IF ~em.specNil /\ em.Spec.GasOverPremium > 0
    THEN MulQuarters(gasPremium, em.Spec.GasOverPremium)
    ELSE gasPremium

\* lines 377-399 and 446-478, the same in both entry points: the premium step,
\* the fee cap step and CapGasFee on message msg of estimate message em.  The
\* set of possible outcomes; "failed" names the step that returned an error.
EstimateFees(msg, em, c, env) ==
    LET premOutcomes ==
            IF Unset(msg.GasPremium)
            THEN GasEstimateGasPremium(EstimateNBlocksIncl, c, env)
            ELSE {[err |-> FALSE, premium |-> msg.GasPremium, cache |-> c,
                   calls |-> <<>>, stats |-> <<>>, sorted |-> <<>>]}
    IN  { IF p.err
          THEN [failed |-> "premium", msg |-> msg, cache |-> p.cache,
                io |-> p.calls, prem |-> <<>>, fee |-> <<>>]
          ELSE LET filledPrem == Unset(msg.GasPremium)
                   m1 == IF filledPrem
                         THEN [msg EXCEPT !.GasPremium = OverPremium(p.premium, em)]
                         ELSE msg
                   premLog == IF filledPrem
                              THEN <<[nblocksincl |-> p.nblocksincl, asked |-> p.asked,
                                      median |-> p.median, floored |-> p.floored,
                                      noise |-> p.noise, jittered |-> p.premium,
                                      premium |-> m1.GasPremium,
                                      stats |-> p.stats, sorted |-> p.sorted]>>
                              ELSE <<>>
                   filledCap == Unset(m1.GasFeeCap)
                   io1 == IF filledCap
                          THEN Append(p.calls, Call("ChainHead", ChainHeadHeight,
                                                    OkOrErr(env.feeHeadErr)))
                          ELSE p.calls
               IN  IF filledCap /\ env.feeHeadErr
                   THEN [failed |-> "feecap", msg |-> m1, cache |-> p.cache,
                         io |-> io1, prem |-> premLog, fee |-> <<>>]
                   ELSE LET m2 == IF filledCap
                                  THEN [m1 EXCEPT !.GasFeeCap =
                                          FeeCapOf(TipSetAt(ChainHeadHeight).ParentBaseFee,
                                                   EstimateMaxQueueBlks, m1.GasPremium)]
                                  ELSE m1
                            m3 == CapGasFee(env.maxFee, m2)
                        IN  [failed |-> "none", msg |-> m3, cache |-> p.cache,
                             io |-> io1, prem |-> premLog,
                             fee |-> <<[filledPrem |-> filledPrem,
                                       filledCap |-> filledCap,
                                       before |-> m2, after |-> m3,
                                       maxFee |-> env.maxFee]>>]
          : p \in premOutcomes }

(* ------------------------------- inputs ------------------------------- *)
GasMeta(price, limit) == [Price |-> price, Limit |-> limit]

\* The messages of the tipset of height h in a chain of the given flavour.
TipMsgs(flavour, h) ==
    CASE flavour = "high" -> <<GasMeta(120000, 2000), GasMeta(300000, 1000)>>
      [] flavour = "low" -> IF h = 0 THEN <<GasMeta(50000, 3000)>> ELSE <<>>
      [] flavour = "tie" -> <<GasMeta(150000, 500), GasMeta(150000, 3000)>>
      [] flavour = "zero" -> <<GasMeta(0, 3000), GasMeta(0, 4000)>>
      [] flavour = "full" -> <<GasMeta(200000, 3000), GasMeta(110000, 2000)>>
      [] flavour = "mixed" -> <<GasMeta(300000, 2000), GasMeta(150000, 500),
                               GasMeta(150000, 3000)>>
      [] flavour = "busy" -> <<GasMeta(120000, 2000)>>
      [] flavour = "sparse" -> IF h % 8 = 0
                               THEN <<GasMeta(120000, 2000), GasMeta(300000, 1000)>>
                               ELSE <<>>

\* the base fee of a chain whose blocks have been full for a while
BusyBaseFee == 200 * MinimumBaseFee

BaseFeeOf(flavour) == IF flavour = "busy" THEN BusyBaseFee ELSE MinimumBaseFee

MkChain(len, flavour) ==
    [i \in 1..len |->
        [Height |-> i - 1, Blocks |-> IF i = 2 THEN 2 ELSE 1,
         Msgs |-> TipMsgs(flavour, i - 1), ParentBaseFee |-> BaseFeeOf(flavour) * i]]

ChainSet == {MkChain(1, "low"), MkChain(2, "low"), MkChain(2, "tie"),
             MkChain(MaxHeight + 1, "high")}

UpgradeHeights == {1, 100}

Message(to, method, gasLimit, gasFeeCap, gasPremium, nonce) ==
    [To |-> to, Method |-> method, GasLimit |-> gasLimit,
     GasFeeCap |-> gasFeeCap, GasPremium |-> gasPremium, Nonce |-> nonce]

SendSpec(overEstimation, overPremium) ==
    [GasOverEstimation |-> overEstimation, GasOverPremium |-> overPremium]

\* what a nil pointer stands for in the records below
NoMessage == Message("missing", MethodSend, 0, 0, 0, 0)
NoSpec == SendSpec(0, 0)

EstimateMessage(msg, spec) ==
    [nil |-> FALSE, msgNil |-> FALSE, specNil |-> FALSE, Msg |-> msg, Spec |-> spec]
EstimateMessageNoSpec(msg) ==
    [nil |-> FALSE, msgNil |-> FALSE, specNil |-> TRUE, Msg |-> msg, Spec |-> NoSpec]
EstimateMessageNoMsg ==
    [nil |-> FALSE, msgNil |-> TRUE, specNil |-> TRUE, Msg |-> NoMessage, Spec |-> NoSpec]
NilEstimateMessage ==
    [nil |-> TRUE, msgNil |-> TRUE, specNil |-> TRUE, Msg |-> NoMessage, Spec |-> NoSpec]

CallerNonce == 7

\* the estimate messages a batch is made of
BatchMsgs ==
    { EstimateMessage(Message("account", MethodSend, 0, 0, EmptyInt, CallerNonce),
                      SendSpec(5, 0)),
      EstimateMessage(Message("paych", MethodsPaychCollect, 0, 0, 0, CallerNonce),
                      SendSpec(0, 2)),
      EstimateMessage(Message("miner", 6, 500, 0, 0, CallerNonce), SendSpec(4, 8)),
      EstimateMessageNoSpec(Message("account", MethodSend, 500, 50, 120000, CallerNonce)),
      EstimateMessageNoSpec(Message("account", MethodSend, 0, 0, 0, CallerNonce)),
      EstimateMessageNoMsg,
      NilEstimateMessage }

\* a caller's fee cap above the spend cap: with it and a gas limit of 500
\* the fee exceeds every mp.GetMaxFee of the environments
HighFeeCap == 10000000

\* the estimate messages given to GasEstimateMessageGas
SingleMsgs ==
    { EstimateMessage(Message(t[1], t[2], gl, cap, pr, CallerNonce), sp) :
        t \in {<<"account", MethodSend>>, <<"paych", MethodsPaychCollect>>,
               <<"miner", 6>>},
        gl \in {0, 500}, cap \in {EmptyInt, 0, 50},
        pr \in {EmptyInt, 0, 120000},
        sp \in {SendSpec(0, 0), SendSpec(2, 2)} }
    \cup { EstimateMessageNoSpec(Message("account", MethodSend, gl, cap, pr, CallerNonce)) :
        gl \in {0, 500}, cap \in {0, 50}, pr \in {0, 120000} }
    \cup { EstimateMessage(Message(t[1], t[2], 0, 0, 0, CallerNonce), SendSpec(0, 0)) :
        t \in {<<"paych", MethodSend>>, <<"paych", 6>>,
               <<"miner", MethodsPaychCollect>>, <<"account", MethodsPaychCollect>>,
               <<"missing", MethodsPaychCollect>>} }
    \cup { EstimateMessageNoSpec(Message("account", MethodSend, 500, HighFeeCap, 120000,
                                         CallerNonce)) }
    \cup { EstimateMessageNoMsg, NilEstimateMessage }

Pending(nonce) == [src |-> "pending", id |-> nonce]
PendingSets == {<<>>, <<Pending(6), Pending(7), Pending(8)>>}

\* the pending queues of a single estimation: with the message's nonce in the
\* queue, below the queue, in a gap of the queue, above the queue
SinglePendingSets ==
    PendingSets \cup {<<Pending(8), Pending(9)>>, <<Pending(6), Pending(8)>>,
                      <<Pending(5), Pending(6)>>}

\* What the collaborators answer during one estimation: the base case, in
\* which every collaborator succeeds, and the environments that differ from
\* it in one respect.
BaseEnv ==
    [fork |-> "none", tipErr |-> FALSE, eval |-> "ok", gasUsed |-> 1000,
     corrLookup |-> "ok", refundLookup |-> "ok",
     headErr |-> FALSE, loadErrAt |-> 0, msgsErrAt |-> 0, noise |-> 1024,
     feeHeadErr |-> FALSE, maxFee |-> 1000000000]

Envs ==
    {BaseEnv}
    \cup {[BaseEnv EXCEPT !.fork = f, !.tipErr = e] :
            f \in {"head", "all"}, e \in BOOLEAN}
    \cup {[BaseEnv EXCEPT !.eval = e] : e \in {"err", "exit"}}
    \cup {[BaseEnv EXCEPT !.fork = "head", !.eval = e] : e \in {"err", "exit"}}
    \cup {[BaseEnv EXCEPT !.gasUsed = g] : g \in {3, 2000}}
    \cup {[BaseEnv EXCEPT !.corrLookup = a, !.refundLookup = b] :
            a \in {"ok", "state", "actor"}, b \in {"ok", "state", "actor"}}
    \cup {[BaseEnv EXCEPT !.headErr = TRUE]}
    \cup {[BaseEnv EXCEPT !.loadErrAt = k] : k \in 1..2}
    \cup {[BaseEnv EXCEPT !.msgsErrAt = k] : k \in 1..2}
    \cup {[BaseEnv EXCEPT !.noise = j] : j \in {1019, 1029}}
    \cup {[BaseEnv EXCEPT !.feeHeadErr = TRUE]}
    \cup {[BaseEnv EXCEPT !.maxFee = f] : f \in {100000000, 126000000}}

(* ------------------------------- actions ------------------------------ *)
InitOf(chains, heights) ==
    /\ chain \in chains
    /\ upgradeHeight \in heights
    /\ cache = <<>>
    /\ pc = "idle"
    /\ op = "none"
    /\ input = <<>>
    /\ msgs = <<>>
    /\ fromNonce = 0
    /\ startNonce = 0
    /\ idx = 0
    /\ pending = <<>>
    /\ priorMsgs = <<>>
    /\ results = <<>>
    /\ ret = "none"
    /\ io = <<>>
    /\ evals = <<>>
    /\ prem = <<>>
    /\ fees = <<>>
    /\ errors = <<>>
    /\ getters = [g \in 1..MaxGetters |-> IdleGetter]
    /\ indexCache = {}
    /\ lastLookup = NoLookup

Init == InitOf(ChainSet, UpgradeHeights)

\* A behaviour is one call of an estimation entry point, or a sequence of
\* GasEstimateGasPremium calls on the one price cache.
CanCall == pc = "idle"

\* A call of GasEstimateGasPremium by an API client.
PremiumCallOf(windows, envs) ==
    /\ CanCall \/ (pc = "done" /\ op = "premium")
    /\ \E nblocksincl \in windows, env \in envs :
         \E p \in GasEstimateGasPremium(nblocksincl, cache, env) :
            /\ cache' = p.cache
            /\ io' = p.calls
            /\ ret' = IF p.err THEN "err" ELSE "ok"
            /\ prem' = IF p.err THEN <<>>
                       ELSE <<[nblocksincl |-> p.nblocksincl, asked |-> p.asked,
                               median |-> p.median,
                               floored |-> p.floored, noise |-> p.noise,
                               jittered |-> p.premium, premium |-> p.premium,
                               stats |-> p.stats, sorted |-> p.sorted]>>
    /\ pc' = "done"
    /\ op' = "premium"
    /\ input' = <<>>
    /\ msgs' = <<>>
    /\ fromNonce' = 0
    /\ startNonce' = 0
    /\ idx' = 0
    /\ pending' = <<>>
    /\ priorMsgs' = <<>>
    /\ results' = <<>>
    /\ evals' = <<>>
    /\ fees' = <<>>
    /\ UNCHANGED <<chain, upgradeHeight, errors, getters,
                   indexCache, lastLookup>>

GasEstimateGasPremiumCall == PremiumCallOf({0, 1, 2, 3, EstimateNBlocksIncl}, Envs)

\* the delay windows and the premiums of the messages of a fee cap call
FeeCapDelays ==
    {0, 1, 3, EstimateMaxQueueBlks, Uint64Delay, Uint64Delay + 1, Uint64Delay + 2}
FeeCapPremiums == {EmptyInt, 0, MinGasPremium}

\* A call of GasEstimateFeeCap by an API client.  fees holds what the last
\* two successful calls were given and returned, the older one first.
GasEstimateFeeCapCall ==
    /\ CanCall \/ (pc = "done" /\ op = "feecap")
    /\ \E gasPremium \in FeeCapPremiums, maxqueueblks \in FeeCapDelays,
          headErr \in BOOLEAN,
          conv \in IF fees = <<>> THEN Conversions ELSE {fees[1].conv} :
         LET parentBaseFee == TipSetAt(ChainHeadHeight).ParentBaseFee
             out == [maxqueueblks |-> maxqueueblks, gasPremium |-> gasPremium,
                     parentBaseFee |-> parentBaseFee, conv |-> conv,
                     feeCap |-> GasEstimateFeeCap(parentBaseFee, maxqueueblks,
                                                  gasPremium, conv)]
         IN  /\ io' = <<Call("ChainHead", ChainHeadHeight, OkOrErr(headErr))>>
             /\ ret' = OkOrErr(headErr)
             /\ fees' = IF headErr THEN fees
                        ELSE IF fees = <<>> THEN <<out>>
                        ELSE <<fees[Len(fees)], out>>
    /\ pc' = "done"
    /\ op' = "feecap"
    /\ UNCHANGED <<chain, upgradeHeight, cache, input, msgs, fromNonce, startNonce,
                   idx, pending, priorMsgs, results, evals, prem, errors, getters,
                   indexCache, lastLookup>>

\* the CallWithGas invocations made for the message at position i; the
\* last one of a successful evaluation holds the gas the receipt reported,
\* the transitionalMulti of line 341 (in hundredths) and the gas returned
WithPos(evs, i) ==
    [k \in 1..Len(evs) |->
        [pos |-> i, msg |-> evs[k].msg, prior |-> evs[k].prior, ts |-> evs[k].ts,
         res |-> evs[k].res, gasUsed |-> evs[k].gasUsed, multi |-> evs[k].multi,
         gas |-> evs[k].gas]]

\* the pending messages with a lower nonce
PriorToLower(queue, nonce) ==
    LET lower(m) == m.id < nonce
    IN  SelectSeq(queue, lower)

\* lines 210-217: the pending messages before the first one with msg's nonce
RECURSIVE PriorTo(_, _)
PriorTo(queue, nonce) ==
    IF queue = <<>> \/ Head(queue).id = nonce THEN <<>>
    ELSE <<Head(queue)>> \o PriorTo(Tail(queue), nonce)

\* msg of lines 200-203: the copy GasEstimateGasLimit prepares; line 213 reads
\* its nonce, and line 219 hands msgIn, not this copy, to evalMessageGasLimit
LimitProbeOf(msgIn) ==
    [msgIn EXCEPT !.GasLimit = BlockGasLimit, !.GasFeeCap = MinimumBaseFee + 1,
                  !.GasPremium = 1]

\* GasEstimateGasLimit(msgIn, empty key).  senv: what ChainHead, ChainTipSet,
\* ResolveToDeterministicAddress and PendingFor answer.
GasEstimateGasLimit(msgIn, senv, env) ==
    LET io1 == <<Call("ChainHead", ChainHeadHeight, OkOrErr(senv.headErr))>>
        io2 == Append(io1, Call("ChainTipSet", ChainHeadHeight, OkOrErr(senv.tipsetErr)))
        io3 == Append(io2, Call("ResolveToDeterministicAddress", ChainHeadHeight,
                                OkOrErr(senv.resolveErr)))
        io4 == Append(io3, Call("PendingFor", ChainHeadHeight, "ok"))
        fail(e, calls) == [gas |-> -1, err |-> e, hung |-> FALSE,
                           evals |-> <<>>, io |-> calls]
    IN  IF senv.headErr THEN fail(ErrorOf("getting head"), io1)
        ELSE IF senv.tipsetErr THEN fail(ErrorOf("getting tipset"), io2)
        ELSE IF senv.resolveErr THEN fail(ErrorOf("getting key address"), io3)
        ELSE LET r == evalMessageGasLimit(msgIn,
                                          PriorTo(senv.pending, LimitProbeOf(msgIn).Nonce),
                                          ChainHeadHeight, env)
             IN  [gas |-> r.gas, err |-> r.err, hung |-> r.hung,
                  evals |-> r.evals, io |-> io4 \o r.io]

OkEnv(p) == [headErr |-> FALSE, tipsetErr |-> FALSE, resolveErr |-> FALSE,
             pending |-> p]

SingleEnvs ==
    {OkEnv(p) : p \in SinglePendingSets}
    \cup {[OkEnv(<<>>) EXCEPT !.headErr = TRUE],
          [OkEnv(<<>>) EXCEPT !.tipsetErr = TRUE],
          [OkEnv(<<>>) EXCEPT !.resolveErr = TRUE]}

\* what the collaborators answer during one single estimation: every
\* environment with an empty pending queue, every pending queue with an
\* evaluation that succeeds at once or after one expensive fork, and each
\* failure before the evaluation
SingleCases ==
    {<<OkEnv(<<>>), env>> : env \in Envs}
    \cup {<<senv, env>> : senv \in SingleEnvs,
                          env \in {BaseEnv,
                                   [BaseEnv EXCEPT !.fork = "head", !.tipErr = FALSE]}}

\* GasEstimateMessageGas(estimateMessage)
MessageGasCallOf(ems, cases) ==
    /\ CanCall
    /\ \E em \in ems, case \in cases :
         LET senv == case[1]
             env == case[2]
         IN
         /\ input' = <<em>>
         /\ pending' = IF em.nil \/ em.msgNil \/ em.Msg.GasLimit # 0
                           \/ senv.headErr \/ senv.tipsetErr \/ senv.resolveErr
                        THEN <<>> ELSE senv.pending
         /\ IF em.nil \/ em.msgNil
            THEN /\ ret' = "err"
                 /\ errors' = <<Wrap(1, "", ErrorOf("estimate message is nil"), 0)>>
                 /\ pc' = "done"
                 /\ msgs' = <<em.Msg>>
                 /\ io' = <<>>
                 /\ evals' = <<>>
                 /\ prem' = <<>>
                 /\ fees' = <<>>
                 /\ cache' = cache
            ELSE LET needLimit == em.Msg.GasLimit = 0
                     g == GasEstimateGasLimit(em.Msg, senv, env)
                     overestimation ==
                         IF ~em.specNil /\ em.Spec.GasOverEstimation > 0
                         THEN em.Spec.GasOverEstimation
                         ELSE GasLimitOverestimation
                     m1 == IF needLimit
                           THEN [em.Msg EXCEPT !.GasLimit = MulQuarters(g.gas, overestimation)]
                           ELSE em.Msg
                     io1 == IF needLimit THEN g.io ELSE <<>>
                     ev1 == IF needLimit THEN WithPos(g.evals, 1) ELSE <<>>
                 IN  IF needLimit /\ g.hung
                     THEN /\ ret' = "none"
                          /\ errors' = <<>>
                          /\ pc' = "hung"
                          /\ msgs' = <<em.Msg>>
                          /\ io' = io1
                          /\ evals' = ev1
                          /\ prem' = <<>>
                          /\ fees' = <<>>
                          /\ cache' = cache
                     ELSE IF needLimit /\ g.err # NoError
                     THEN /\ ret' = "err"
                          /\ errors' = <<Wrap(1, "estimating gas used", g.err, g.gas)>>
                          /\ pc' = "done"
                          /\ msgs' = <<em.Msg>>
                          /\ io' = io1
                          /\ evals' = ev1
                          /\ prem' = <<>>
                          /\ fees' = <<>>
                          /\ cache' = cache
                     ELSE \E f \in EstimateFees(m1, em, cache, env) :
                          /\ ret' = IF f.failed = "none" THEN "ok" ELSE "err"
                          /\ errors' =
                                IF f.failed = "premium"
                                THEN <<Wrap(1, "estimating gas price", ErrorOf("err"), 0)>>
                                ELSE IF f.failed = "feecap"
                                THEN <<Wrap(1, "estimating fee cap", ErrorOf("err"), 0)>>
                                ELSE <<>>
                          /\ pc' = "done"
                          /\ msgs' = <<f.msg>>
                          /\ io' = io1 \o f.io
                          /\ evals' = ev1
                          /\ prem' = f.prem
                          /\ fees' = f.fee
                          /\ cache' = f.cache
    /\ op' = "single"
    /\ fromNonce' = 0
    /\ startNonce' = 0
    /\ idx' = 0
    /\ priorMsgs' = <<>>
    /\ results' = <<>>
    /\ UNCHANGED <<chain, upgradeHeight, getters,
                   indexCache, lastLookup>>

\* A call of GasEstimateMessageGas by an API client.
GasEstimateMessageGas == MessageGasCallOf(SingleMsgs, SingleCases)

StartNonces == {0, MaxStartNonce}

BatchEnvs ==
    {OkEnv(p) : p \in PendingSets}
    \cup {[OkEnv(<<>>) EXCEPT !.tipsetErr = TRUE],
          [OkEnv(<<>>) EXCEPT !.resolveErr = TRUE]}

\* the batches of specification Spec
ShortBatchInputs == UNION {[1..n -> BatchMsgs] : n \in 0..MaxShortBatch}

\* the batches of specification SpecBatch
LongBatchMsgs ==
    { EstimateMessage(Message("account", MethodSend, 0, 0, EmptyInt, CallerNonce),
                      SendSpec(5, 0)),
      EstimateMessage(Message("miner", 6, 500, 0, 0, CallerNonce), SendSpec(4, 8)),
      EstimateMessageNoSpec(Message("account", MethodSend, 500, 50, 120000, CallerNonce)),
      EstimateMessageNoMsg }

LongBatchInputs == UNION {[1..n -> LongBatchMsgs] : n \in 0..MaxBatch}

\* the collaborators' answers in specification SpecBatch
LongBatchEnvs ==
    {BaseEnv, [BaseEnv EXCEPT !.eval = "exit"], [BaseEnv EXCEPT !.headErr = TRUE],
     [BaseEnv EXCEPT !.feeHeadErr = TRUE]}

\* the batch goes on when the sender's address does not resolve
ResolveErrorSwallowed == "ok"

\* what the batch call returns when the sender's address does not resolve
\* (lines 416-418)
ResolveErrorReturn == "err"

\* GasBatchEstimateMessageGas up to its loop (lines 404-426).
BatchCallOf(inputs) ==
    /\ CanCall
    /\ \E batch \in inputs, sn \in StartNonces, benv \in BatchEnvs :
         LET io1 == <<Call("ChainTipSet", ChainHeadHeight, OkOrErr(benv.tipsetErr))>>
             io2 == Append(io1, Call("ResolveToDeterministicAddress", ChainHeadHeight,
                                     OkOrErr(benv.resolveErr)))
             io3 == Append(io2, Call("PendingFor", ChainHeadHeight, "ok"))
             end(r, calls) == /\ ret' = r
                              /\ errors' = IF r = "err"
                                            THEN <<Wrap(0, "", ErrorOf(
                                                     IF Len(batch) = 0
                                                     THEN "estimate messages are empty"
                                                     ELSE IF benv.tipsetErr
                                                     THEN "getting tipset"
                                                     ELSE "getting key address"), 0)>>
                                            ELSE <<>>
                              /\ pc' = "done"
                              /\ io' = calls
                              /\ pending' = <<>>
                              /\ priorMsgs' = <<>>
         IN  /\ input' = batch
             /\ msgs' = [i \in 1..Len(batch) |-> batch[i].Msg]
             /\ startNonce' = sn
             /\ fromNonce' = sn
             /\ IF Len(batch) = 0 THEN end("err", <<>>)
                ELSE IF benv.tipsetErr THEN end("err", io1)
                ELSE IF batch[1].nil \/ batch[1].msgNil THEN end("panic", io1)
                ELSE IF benv.resolveErr THEN end(ResolveErrorReturn, io2)
                ELSE /\ ret' = "none"
                     /\ errors' = <<>>
                     /\ pc' = "batch"
                     /\ io' = io3
                     /\ pending' = benv.pending
                     /\ priorMsgs' = benv.pending
    /\ op' = "batch"
    /\ idx' = 0
    /\ results' = <<>>
    /\ evals' = <<>>
    /\ prem' = <<>>
    /\ fees' = <<>>
    /\ UNCHANGED <<chain, upgradeHeight, cache, getters,
                   indexCache, lastLookup>>

\* every result points at the first message of the batch
EstimateResultFirst(i, err) == [idx |-> 1, Err |-> err]

\* the estimateResults entry of the message at position i
EstimateResult(i, err) == [idx |-> i, Err |-> err]

\* where the loop goes after the message at position i
AfterMessage(i) ==
    IF i = Len(input)
    THEN /\ pc' = "done"
         /\ ret' = "ok"
    ELSE /\ pc' = "batch"
         /\ ret' = ret

\* a failed estimation ends the batch call with an error
AbortBatch(i) ==
    /\ pc' = "done"
    /\ ret' = "err"

\* where the loop goes after a message whose estimation failed ("continue")
AfterFailure(i) == AfterMessage(i)

\* the counter moves on after every message
NextNonceAlways(nonce, succeeded) == nonce + 1

\* the counter never moves
NextNonceNever(nonce, succeeded) == nonce

\* the nonce counter after a message was handled: line 484 is reached by a
\* message that was estimated, and skipped by the "continue" of a failure
NextNonce(nonce, succeeded) == IF succeeded THEN nonce + 1 ELSE nonce

\* failed messages join the context too
PriorAfterAlways(prior, i, succeeded) == Append(prior, [src |-> "batch", id |-> i])

\* the prior-messages context after the message at position i (line 483)
PriorAfter(prior, i, succeeded) ==
    IF succeeded THEN Append(prior, [src |-> "batch", id |-> i]) ELSE prior

\* One iteration of the loop of GasBatchEstimateMessageGas (lines 427-485),
\* and the return of line 486 after the last one.
BatchStepOf(envs) ==
    /\ pc = "batch"
    /\ idx < Len(input)
    /\ LET i == idx + 1
           em == input[i]
           panic == /\ pc' = "done"
                    /\ ret' = "panic"
                    /\ UNCHANGED <<fromNonce, priorMsgs, results, cache, prem, fees,
                                   errors>>
       IN
       /\ idx' = i
       /\ \E env \in envs :
          IF em.nil \/ em.msgNil
          THEN /\ panic
               /\ UNCHANGED <<msgs, io, evals>>
          ELSE
          LET m0 == [msgs[i] EXCEPT !.Nonce = fromNonce]
              needLimit == m0.GasLimit = 0
              g == evalMessageGasLimit(m0, priorMsgs, ChainHeadHeight, env)
              io1 == IF needLimit THEN io \o g.io ELSE io
              ev1 == IF needLimit THEN evals \o WithPos(g.evals, i) ELSE evals
              failWith(m, e, err, gas) ==
                  /\ msgs' = [msgs EXCEPT ![i] = [m EXCEPT !.Nonce = 0]]
                  /\ results' = Append(results, EstimateResult(i, e))
                  /\ errors' = Append(errors, Wrap(i, e, err, gas))
                  /\ fromNonce' = NextNonce(fromNonce, FALSE)
                  /\ priorMsgs' = PriorAfter(priorMsgs, i, FALSE)
                  /\ AfterFailure(i)
          IN
          /\ evals' = ev1
          /\ IF needLimit /\ g.hung
             THEN /\ pc' = "hung"
                  /\ msgs' = [msgs EXCEPT ![i] = m0]
                  /\ io' = io1
                  /\ UNCHANGED <<ret, fromNonce, priorMsgs, results, cache, prem, fees,
                                 errors>>
             ELSE IF needLimit /\ g.err # NoError
             THEN /\ failWith(m0, "estimating gas limit", g.err, g.gas)
                  /\ io' = io1
                  /\ UNCHANGED <<cache, prem, fees>>
             ELSE IF needLimit /\ em.specNil
             THEN /\ panic
                  /\ msgs' = [msgs EXCEPT ![i] = m0]
                  /\ io' = io1
             ELSE
             LET m1 == IF needLimit
                       THEN [m0 EXCEPT !.GasLimit =
                                MulQuarters(g.gas, em.Spec.GasOverEstimation)]
                       ELSE m0
             IN  \E f \in EstimateFees(m1, em, cache, env) :
                 /\ io' = io1 \o f.io
                 /\ cache' = f.cache
                 /\ prem' = prem \o f.prem
                 /\ IF f.failed = "premium"
                    THEN /\ failWith(f.msg, "estimating gas premium", ErrorOf("err"), 0)
                         /\ fees' = fees
                    ELSE IF f.failed = "feecap"
                    THEN /\ failWith(f.msg, "estimating fee cap", ErrorOf("err"), 0)
                         /\ fees' = fees
                    ELSE /\ msgs' = [msgs EXCEPT ![i] = f.msg]
                         /\ results' = Append(results, EstimateResult(i, ""))
                         /\ priorMsgs' = PriorAfter(priorMsgs, i, TRUE)
                         /\ fromNonce' = NextNonce(fromNonce, TRUE)
                         /\ fees' = fees \o f.fee
                         /\ errors' = errors
                         /\ AfterMessage(i)
    /\ UNCHANGED <<chain, upgradeHeight, op, input, startNonce, pending, getters,
                   indexCache, lastLookup>>

BatchCall == BatchCallOf(ShortBatchInputs)
BatchStep == BatchStepOf(Envs)
LongBatchCall == BatchCallOf(LongBatchInputs)
LongBatchStep == BatchStepOf(LongBatchEnvs)

\* every entry point, short batches, every answer of the collaborators
Next ==
    \/ GasEstimateGasPremiumCall
    \/ GasEstimateMessageGas
    \/ BatchCall
    \/ BatchStep

Spec == Init /\ [][Next]_vars

\* the chains of specification SpecBatch
LongBatchChains == {MkChain(2, "low"), MkChain(MaxHeight + 1, "high")}

InitBatch == InitOf(LongBatchChains, {1})

\* batch estimation of longer batches
NextBatch ==
    \/ LongBatchCall
    \/ LongBatchStep

SpecBatch == InitBatch /\ [][NextBatch]_vars

\* the chains of specification SpecCache: one of them has more tipsets than
\* the cache holds
CacheChains ==
    {MkChain(1, "low"), MkChain(2, "low"), MkChain(2, "tie"), MkChain(2, "zero"),
     MkChain(2, "mixed"), MkChain(MaxHeight + 1, "full"),
     MkChain(MaxHeight + 1, "high"), MkChain(MaxChainLen, "sparse")}

InitCache == InitOf(CacheChains, {1})

\* the inclusion targets and the collaborators' answers in SpecCache
CacheWindows == {0, 1, 2, 3, EstimateNBlocksIncl, MaxWindow}

CacheEnvs ==
    {BaseEnv, [BaseEnv EXCEPT !.headErr = TRUE], [BaseEnv EXCEPT !.noise = 1019]}
    \cup {[BaseEnv EXCEPT !.loadErrAt = k] : k \in 1..2}
    \cup {[BaseEnv EXCEPT !.msgsErrAt = k] : k \in 1..2}

CachePremiumCall == PremiumCallOf(CacheWindows, CacheEnvs)

\* premium estimations, one after the other, on the one price cache
NextCache == CachePremiumCall

SpecCache == InitCache /\ [][NextCache]_vars

\* the upgrade heights, the messages and the collaborators' answers of
\* specification SpecCorrection: tips below, at both ends of and above the
\* correction window, every method of the table for every kind of destination
CorrectionHeights ==
    {0, 1, 2, UpgradeLookback, UpgradeLookback + 1, UpgradeLookback + 2,
     UpgradeLookback + 3}

CorrectionChains == {MkChain(MaxHeight + 1, "high")}

CorrectionMsgs ==
    { EstimateMessage(Message(to, method, 0, 0, 0, CallerNonce), SendSpec(0, 0)) :
        to \in {"account", "miner", "paych", "missing"},
        method \in {MethodSend, 2, 3, 4, 6, 7, 16, 18, 23, 26, 27} }

CorrectionCases ==
    {<<OkEnv(<<>>), [BaseEnv EXCEPT !.fork = f, !.corrLookup = a, !.gasUsed = g]>> :
        f \in {"none", "head"}, a \in {"ok", "state", "actor"}, g \in {999, 1000}}

InitCorrection == InitOf(CorrectionChains, CorrectionHeights)

CorrectionCall == MessageGasCallOf(CorrectionMsgs, CorrectionCases)

\* single estimations around the upgrade height
NextCorrection == CorrectionCall

SpecCorrection == InitCorrection /\ [][NextCorrection]_vars

\* GetTSGasStats calls of several goroutines on the one cache.  The cache
\* serialises Get and Add; between them a call runs unsynchronised.
StatsUnchanged ==
    UNCHANGED <<chain, upgradeHeight, pc, op, input, msgs, fromNonce, startNonce, idx,
                pending, priorMsgs, results, ret, io, evals, prem, fees, errors,
                indexCache, lastLookup>>

\* line 52: goroutine g calls GetTSGasStats for the tip of height h
StatsCall(g) ==
    /\ getters[g].pc = "idle"
    /\ \E h \in 0..ChainHeadHeight :
          getters' = [getters EXCEPT ![g] = [IdleGetter EXCEPT !.pc = "get", !.ts = h]]
    /\ cache' = cache
    /\ StatsUnchanged

\* lines 53-56: g.c.Get, and the return of the cached list
StatsGet(g) ==
    /\ getters[g].pc = "get"
    /\ LET hits == CacheHits(cache, getters[g].ts)
       IN  getters' = [getters EXCEPT ![g] =
               IF hits # {}
               THEN [@ EXCEPT !.pc = "done",
                              !.prices = cache[CHOOSE i \in hits : TRUE].meta]
               ELSE [@ EXCEPT !.pc = "load"]]
    /\ cache' = cache
    /\ StatsUnchanged

\* lines 58-68: provider.MessagesForTipset, and the return of its error
StatsLoad(g) ==
    /\ getters[g].pc = "load"
    /\ \E loaderFails \in BOOLEAN :
          getters' = [getters EXCEPT ![g] =
              IF loaderFails
              THEN [@ EXCEPT !.pc = "done", !.err = TRUE, !.loaded = TRUE]
              ELSE [@ EXCEPT !.pc = "add", !.prices = LoadedPrices(getters[g].ts),
                             !.loaded = TRUE]]
    /\ cache' = cache
    /\ StatsUnchanged

\* lines 70-72: g.c.Add, and the return of the loaded list
StatsAdd(g) ==
    /\ getters[g].pc = "add"
    /\ cache' = CachePut(cache, getters[g].ts, getters[g].prices)
    /\ getters' = [getters EXCEPT ![g] = [@ EXCEPT !.pc = "done"]]
    /\ StatsUnchanged

StatsChains == {MkChain(2, "low"), MkChain(MaxHeight + 1, "full")}

InitStats == InitOf(StatsChains, {1})

NextStats ==
    \E g \in 1..MaxGetters :
        \/ StatsCall(g)
        \/ StatsGet(g)
        \/ StatsLoad(g)
        \/ StatsAdd(g)

SpecStats == InitStats /\ [][NextStats]_vars

\* the tipsets of the given heights, lowest first
RECURSIVE ChainOfHeights(_)
ChainOfHeights(heights) ==
    IF heights = {} THEN <<>>
    ELSE LET top == CHOOSE h \in heights : \A o \in heights : o <= h
         IN  Append(ChainOfHeights(heights \ {top}),
                    [Height |-> top, Blocks |-> 1, Msgs |-> <<>>,
                     ParentBaseFee |-> MinimumBaseFee])

\* the chains of specification SpecIndex: without null rounds, with null
\* rounds at the multiples of the skip length, with one run of null rounds
\* longer than the skip length, and with a tipset every seventh height
IndexChains ==
    { ChainOfHeights(0..MaxIndexHeight),
      ChainOfHeights({h \in 0..MaxIndexHeight : h = 0 \/ h % skipLength # 0}),
      ChainOfHeights((0..5) \cup ((MaxIndexHeight - 5)..MaxIndexHeight)),
      ChainOfHeights({h \in 0..MaxIndexHeight : h % 7 = 0} \cup {MaxIndexHeight}) }

\* the tipsets lookups start from: the head and tipsets at and around the
\* multiples of the skip length
IndexFroms ==
    {k \in 1..Len(chain) :
        HeightOf(k) \in {MaxIndexHeight, MaxIndexHeight - 3, 2 * skipLength,
                         skipLength + 3}}

\* A call of GetTipSetByHeight(from, to); abi.ChainEpoch is a signed integer
GetTipSetByHeightCall ==
    /\ \E from \in IndexFroms, loadFails \in BOOLEAN :
          \E to \in (-1)..(HeightOf(from) + 1) :
              lastLookup' = GetTipSetByHeight(indexCache, from, to, loadFails) @@
                            [from |-> from, to |-> to, loadFails |-> loadFails,
                             before |-> indexCache]
    /\ indexCache' = lastLookup'.cache
    /\ UNCHANGED <<chain, upgradeHeight, cache, pc, op, input, msgs, fromNonce,
                   startNonce, idx, pending, priorMsgs, results, ret, io, evals, prem,
                   fees, errors, getters>>

InitIndex == InitOf(IndexChains, {1})

\* lookups, one after the other, on the one index
NextIndex == GetTipSetByHeightCall

SpecIndex == InitIndex /\ [][NextIndex]_vars

\* fee cap projections, one after the other, on the one chain
NextFeeCap == GasEstimateFeeCapCall

\* the chains of specification SpecFeeCap: base fees from the minimum up
FeeCapChains == CacheChains \cup {MkChain(1, "busy")}

InitFeeCap == InitOf(FeeCapChains, {1})

SpecFeeCap == InitFeeCap /\ [][NextFeeCap]_vars

(* ------------------------------- claims ------------------------------- *)
Succeeded(r) == r.Err = ""
Failed(r) == r.Err # ""
ResultNonce(r) == msgs[r.idx].Nonce
NumSucceeded(rs) == Len(SelectSeq(rs, Succeeded))
\* the step of the loop that records the result of one more message
RecordsResult == op = "batch" /\ Len(results') = Len(results) + 1
LastResult(rs) == rs[Len(rs)]
BatchEntry(r) == [src |-> "batch", id |-> r.idx]

\* C1 as stated: the result at position i of a batch (counted from 0) carries
\* the nonce startNonce + i when it succeeded and the unset nonce 0 when it
\* failed, whatever happened to the earlier messages.
C1_NonceIsStartPlusPosition ==
    op = "batch" =>
        \A k \in 1..Len(results) :
            IF Succeeded(results[k])
            THEN ResultNonce(results[k]) = startNonce + (results[k].idx - 1)
            ELSE ResultNonce(results[k]) = 0

\* C1 amended: the nonce counter moves on only after a message that was
\* estimated: the step that records a success gives the message the nonce
\* startNonce + (number of earlier successes) and advances the counter by one,
\* the step that records a failure leaves the unset nonce 0 on the message and
\* the counter unchanged; the earlier results keep their nonces.
C1_NonceCountsSuccesses ==
    [][RecordsResult =>
        LET r == LastResult(results')
        IN  /\ IF Succeeded(r)
               THEN /\ msgs'[r.idx].Nonce = startNonce + NumSucceeded(results)
                    /\ fromNonce' = fromNonce + 1
               ELSE /\ msgs'[r.idx].Nonce = 0
                    /\ fromNonce' = fromNonce
            /\ \A k \in 1..Len(results) :
                   msgs'[results[k].idx].Nonce = msgs[results[k].idx].Nonce]_vars

\* a batch that returned with a failure followed by a success
C1_Witness ==
    /\ op = "batch" /\ ret = "ok"
    /\ \E k, l \in 1..Len(results) :
          /\ k < l
          /\ Failed(results[k])
          /\ Succeeded(results[l])
          /\ ResultNonce(results[l]) < startNonce + (l - 1)

\* C2: the nonces of the successful results of a batch, read in result order,
\* are startNonce, startNonce + 1, ... without gap or repeat, however many
\* messages of the batch failed.
C2_SuccessNoncesConsecutive ==
    op = "batch" =>
        LET ok == SelectSeq(results, Succeeded)
        IN  \A j \in 1..Len(ok) : ResultNonce(ok[j]) = startNonce + (j - 1)

\* a returned batch with two successes around a failure
C2_Witness ==
    /\ op = "batch" /\ ret = "ok" /\ Len(results) >= 3
    /\ Succeeded(results[1]) /\ Failed(results[2]) /\ Succeeded(results[3])

\* C3: a batch call that got past tipset and sender resolution has one result
\* per message handled so far, the k-th result referring to the k-th input
\* message, and when it returns it has one result per input message.
C3_OneResultPerMessage ==
    (op = "batch" /\ (pc = "batch" \/ ret = "ok")) =>
        /\ Len(results) = idx
        /\ \A k \in 1..Len(results) : results[k].idx = k
        /\ ret = "ok" => Len(results) = Len(input)

\* a returned batch of several messages, some estimated and some failed
C3_Witness ==
    /\ op = "batch" /\ ret = "ok" /\ Len(input) >= 2
    /\ \E k, l \in 1..Len(results) : Failed(results[k]) /\ Succeeded(results[l])

\* the calls of the step that returned an error which fails an estimation step
\* (the actor lookups of evalMessageGasLimit do not: their errors are ignored)
StepFailed ==
    \E k \in (Len(io) + 1)..Len(io') :
        /\ io'[k].call \in {"CallWithGas", "ChainTipSet", "ChainHead",
                             "LoadTipSet", "MessagesForTipset"}
        /\ io'[k].res \in {"err", "exit"}

\* C4: inside the batch loop a failure of the gas limit, premium or fee cap
\* step of a message records a result with a non-empty error and the nonce 0
\* for that message (and a step without such a failure records a result
\* without error); the call goes on with the next message, and after the last
\* message it returns its results without a top-level error.
C4_FailureIsIsolated ==
    [][(pc = "batch" /\ pc' # "hung" /\ ret' # "panic") =>
        /\ RecordsResult
        /\ Failed(LastResult(results')) <=> StepFailed
        /\ Failed(LastResult(results')) =>
              /\ LastResult(results').Err \in {"estimating gas limit",
                      "estimating gas premium", "estimating fee cap"}
              /\ msgs'[idx'].Nonce = 0
        /\ ret' # "err"
        /\ IF idx' < Len(input) THEN pc' = "batch" /\ ret' = "none"
                                ELSE pc' = "done" /\ ret' = "ok"]_vars

\* a returned batch in which the premium or the fee cap step failed for a
\* message, that message carries the nonce 0, and a later one was estimated
C4_Witness ==
    /\ op = "batch" /\ ret = "ok"
    /\ \E k, l \in 1..Len(results) :
          /\ k < l
          /\ results[k].Err \in {"estimating gas premium", "estimating fee cap"}
          /\ ResultNonce(results[k]) = 0
          /\ Succeeded(results[l])

\* the batch call's resolution of the sender's address failed
ResolutionFailed ==
    /\ op = "batch"
    /\ \E k \in 1..Len(io) :
          io[k].call = "ResolveToDeterministicAddress" /\ io[k].res = "err"

\* C5 as stated: a failed address resolution becomes the error result of the
\* affected message and the batch call still returns a result per message.
C5_ResolutionFailureIsolated ==
    (ResolutionFailed /\ pc = "done") =>
        /\ ret = "ok"
        /\ Len(results) = Len(input)

\* C5 amended: the batch call resolves the sender's address once, before its
\* loop; when that fails the call returns a top-level error and nothing else
\* has happened: no result, no evaluator call, no message changed.
C5_ResolutionFailureAbortsBatch ==
    ResolutionFailed =>
        /\ pc = "done" /\ ret = "err"
        /\ results = <<>>
        /\ evals = <<>>
        /\ \A k \in 1..Len(input) : msgs[k] = input[k].Msg
        /\ io[Len(io)].call = "ResolveToDeterministicAddress"

\* a batch of several messages whose sender did not resolve
C5_Witness == ResolutionFailed /\ Len(input) >= 2 /\ pc = "done"

\* C6: every evaluator call made for the message at position p of a batch
\* gets as prior messages the pending snapshot followed by the earlier
\* messages of the batch that were estimated, in input order, and no failed one.
C6_PriorIsPendingThenSuccesses ==
    op = "batch" =>
        \A e \in 1..Len(evals) :
            LET earlier(r) == r.idx < evals[e].pos /\ Succeeded(r)
                ok == SelectSeq(results, earlier)
            IN  evals[e].prior = pending \o [j \in 1..Len(ok) |-> BatchEntry(ok[j])]

\* an evaluator call for the third message after a success and a failure,
\* with pending messages
C6_Witness ==
    /\ op = "batch" /\ Len(pending) > 0 /\ Len(results) >= 2
    /\ Succeeded(results[1]) /\ Failed(results[2])
    /\ \E e \in 1..Len(evals) : evals[e].pos = 3

\* the input of the call in progress holds a nil estimate message or an
\* estimate message with a nil inner message, or is an empty batch
EmptyInput ==
    \/ op \in {"single", "batch"} /\
           \E k \in 1..Len(input) : input[k].nil \/ input[k].msgNil
    \/ op = "batch" /\ input = <<>>

\* C7: a nil estimate message, a nil inner message or an empty batch is
\* rejected with an error before any call to an external collaborator, in
\* GasEstimateMessageGas and for every element of a batch.
C7_EmptyInputRejectedBeforeIO ==
    EmptyInput =>
        /\ pc = "done" /\ ret = "err"
        /\ io = <<>>
        /\ evals = <<>>

\* C8: every message returned as successfully estimated has gasLimit > 0.
C8_GasLimitPositive ==
    /\ (op = "single" /\ ret = "ok") => msgs[1].GasLimit > 0
    /\ op = "batch" =>
          \A k \in 1..Len(results) :
              Succeeded(results[k]) => msgs[results[k].idx].GasLimit > 0

\* the floor of an inclusion target: 2x the minimum premium for 1 block, 1.5x
\* for 2 blocks, 1x for 3 or more
StepFloor(nblocksincl) ==
    CASE nblocksincl = 1 -> 2 * MinGasPremium
      [] nblocksincl = 2 -> (3 * MinGasPremium) \div 2
      [] OTHER -> MinGasPremium

\* C9 as stated: every premium the estimator filled in is, after the jitter
\* and the gasOverPremium scaling, at least the floor of its inclusion target.
C9_PremiumAtLeastStepFloor ==
    \A k \in 1..Len(prem) : prem[k].premium >= StepFloor(prem[k].nblocksincl)

\* C9 amended: before the jitter the premium is at least the minimum premium
\* for every inclusion target: it is the step value of the target (2x, 1.5x,
\* 1x the minimum) when the median is below the minimum and the median itself
\* otherwise; the jitter then multiplies it by the noise, so that a noise of
\* at least 1 keeps it and a noise below 1 may take it under the floor.
C9_FloorBeforeJitter ==
    \A k \in 1..Len(prem) :
        LET p == prem[k]
        IN  /\ p.floored >= MinGasPremium
            /\ p.median < MinGasPremium => p.floored = StepFloor(p.nblocksincl)
            /\ p.median >= MinGasPremium => p.floored = p.median
            /\ p.jittered * 1024 <= p.floored * p.noise
            /\ p.floored * p.noise < (p.jittered + 1) * 1024
            /\ p.noise >= 1024 => p.jittered >= p.floored

\* a premium raised to the floor of one block and then taken under it by the
\* jitter
C9_Witness ==
    \E k \in 1..Len(prem) :
        /\ prem[k].nblocksincl = 1
        /\ prem[k].median < MinGasPremium
        /\ prem[k].floored = 2 * MinGasPremium
        /\ prem[k].noise < 1024
        /\ prem[k].premium < 2 * MinGasPremium

EvalsAt(p) ==
    LET at(e) == e.pos = p
    IN  SelectSeq(evals, at)

\* the errors of the gas limit step of the message at position p
GasLimitErrors(p) ==
    LET at(e) == e.pos = p /\ e.step \in {"estimating gas used", "estimating gas limit"}
    IN  SelectSeq(errors, at)

\* the error text that ends the loop after an evaluator call that answered res
LoopError(res) ==
    CASE res = "err" -> "CallWithGas failed"
      [] res = "exit" -> "message execution failed"
      [] res = "fork" -> "getting parent tipset"

\* the estimation of the message at position p is over
MessageOver(p) ==
    \/ op = "single" /\ pc = "done"
    \/ op = "batch" /\ Len(results) >= p

\* C11: in the gas limit evaluation loop only the expensive-fork error is
\* retried: an evaluator call is followed by another one for the same message
\* exactly when it answered that error, the next call targets the parent of
\* the previous target with the same probe and the same prior messages; any
\* other evaluator error ends the estimation with an error after that one
\* call, and a failure to load the parent ends it with an error without
\* another evaluator call.
C11_OnlyForkIsRetried ==
    \A p \in 1..Len(input) :
        LET es == EvalsAt(p)
        IN  /\ \A e \in 1..(Len(es) - 1) :
                  /\ es[e].res = "fork"
                  /\ es[e].ts > 0 => es[e + 1].ts = es[e].ts - 1
                  /\ es[e + 1].msg = es[e].msg
                  /\ es[e + 1].prior = es[e].prior
            /\ (es # <<>> /\ MessageOver(p)) =>
                  /\ es[Len(es)].res = "ok" => GasLimitErrors(p) = <<>>
                  /\ es[Len(es)].res # "ok" =>
                        /\ Len(GasLimitErrors(p)) = 1
                        /\ GasLimitErrors(p)[1].text = LoopError(es[Len(es)].res)
                        /\ op = "single" => ret = "err"
                  /\ (op = "single" /\ es[Len(es)].res = "fork") =>
                        /\ io[Len(io)] = Call("ChainTipSet",
                                              IF es[Len(es)].ts = 0 THEN ChainHeadHeight
                                              ELSE es[Len(es)].ts - 1, "err")
                        /\ io[Len(io) - 1].call = "CallWithGas"

\* an estimation that was retried once at the parent of the head and then
\* ended by another evaluator error, and one ended by the parent-tip load
C11_Witness ==
    /\ op = "single" /\ pc = "done" /\ ret = "err"
    /\ Len(evals) = 2
    /\ evals[1].res = "fork" /\ evals[1].ts = ChainHeadHeight
    /\ evals[2].ts = ChainHeadHeight - 1
    /\ \/ evals[2].res = "err"
       \/ evals[2].res = "fork" /\ io[Len(io)].call = "ChainTipSet"

\* the collaborator calls of the call in progress that read the state tree
StateLookups ==
    {k \in 1..Len(io) : io[k].call \in {"ParentState", "GetActor"}}

\* C12: when the evaluator returns a receipt whose exit code is not Ok, the
\* gas limit estimation returns an error that carries the exit code and the
\* reason of the receipt, and the gas value -1; the message keeps its unset
\* gas limit and neither the upgrade correction nor the refund is looked up
\* or applied.
C12_FailedReceiptIsAnError ==
    \A p \in 1..Len(input) :
        LET es == EvalsAt(p)
        IN  (es # <<>> /\ MessageOver(p) /\ es[Len(es)].res = "exit") =>
                /\ Len(GasLimitErrors(p)) = 1
                /\ GasLimitErrors(p)[1].exit = ExitFailed
                /\ GasLimitErrors(p)[1].reason = ReasonFailed
                /\ GasLimitErrors(p)[1].gas = -1
                /\ msgs[p].GasLimit = 0
                /\ op = "single" => ret = "err" /\ StateLookups = {}
                /\ op = "batch" => Failed(results[p])
                /\ Len(input) = 1 => StateLookups = {}

\* a payment-channel Collect message inside the upgrade window whose
\* evaluation ended with a failed receipt
C12_Witness ==
    /\ op = "single" /\ pc = "done"
    /\ evals # <<>> /\ evals[Len(evals)].res = "exit"
    /\ input[1].Msg.To = "paych" /\ input[1].Msg.Method = MethodsPaychCollect
    /\ evals[Len(evals)].ts <= upgradeHeight

\* C13: the probe message handed to the evaluator equals the input message
\* except that gasLimit is the block gas limit, gasFeeCap is the minimum base
\* fee plus one and gasPremium is 1; the caller's message is not changed by
\* building the probe.
C13_ProbeFields ==
    \A e \in 1..Len(evals) :
        LET in == input[evals[e].pos].Msg
            probe == evals[e].msg
        IN  /\ probe.To = in.To /\ probe.Method = in.Method
            /\ probe.GasLimit = BlockGasLimit
            /\ probe.GasFeeCap = MinimumBaseFee + 1
            /\ probe.GasPremium = 1
            /\ (pc = "hung" \/ GasLimitErrors(evals[e].pos) # <<>>) =>
                  /\ msgs[evals[e].pos].GasLimit = in.GasLimit
                  /\ msgs[evals[e].pos].GasFeeCap = in.GasFeeCap
                  /\ msgs[evals[e].pos].GasPremium = in.GasPremium

\* the pending messages with a nonce strictly below n, in pool order
StrictlyBelow(queue, n) ==
    LET below(m) == m.id < n
    IN  SelectSeq(queue, below)

\* C14: in single-message gas limit estimation the prior messages are exactly
\* the sender's pending messages with a nonce strictly below the nonce of the
\* message, in pool order, for every pending queue and every message nonce.
C14_PriorIsStrictlyLowerNonces ==
    op = "single" =>
        \A e \in 1..Len(evals) :
            evals[e].prior = StrictlyBelow(pending, input[1].Msg.Nonce)

\* C14 amended: the prior messages are the pending messages that come, in
\* pool order, before the first pending message whose nonce equals the nonce
\* of the message, and all pending messages when no pending message has that
\* nonce (a nonce below the queue, in a gap of it or above it).
C14_PriorIsPendingUpToSameNonce ==
    op = "single" =>
        \A e \in 1..Len(evals) :
            LET prior == evals[e].prior
                nonce == input[1].Msg.Nonce
            IN  /\ Len(prior) <= Len(pending)
                /\ prior = SubSeq(pending, 1, Len(prior))
                /\ \A k \in 1..Len(prior) : prior[k].id # nonce
                /\ Len(prior) < Len(pending) => pending[Len(prior) + 1].id = nonce

\* evaluations with the message's nonce in a gap of the queue and below it:
\* pending messages with a higher nonce are prior messages
C14_Witness ==
    /\ op = "single" /\ evals # <<>>
    /\ evals[1].prior = pending
    /\ \E k \in 1..Len(pending) : pending[k].id > input[1].Msg.Nonce

\* the loader calls of the step for the tipset of the given key
LoaderCalls(calls, key) ==
    {k \in 1..Len(calls) : calls[k].call = "MessagesForTipset" /\ calls[k].key = key}

\* the number of entries the step dropped from the cache
Evictions ==
    Len(cache) + Cardinality({k \in 1..Len(io') : io'[k].call = "MessagesForTipset"
                                                   /\ io'[k].res = "ok"})
    - Len(cache')

\* C15: once GetTSGasStats has succeeded for a tipset, a later call for the
\* same tipset, its entry not having been evicted, returns the list the
\* cache holds without calling the loader: the premium estimation that
\* follows makes no MessagesForTipset call for a tipset the cache held (and
\* still holds), and is given the cached list for it.
C15_CachedTipIsNotLoadedAgain ==
    [][op' = "premium" =>
        \A i \in 1..Len(cache) :
            i > Evictions =>
                /\ LoaderCalls(io', cache[i].key) = {}
                /\ cache'[i - Evictions] = cache[i]
                /\ prem' # <<>> =>
                      \A k \in 1..Len(prem'[1].stats) :
                          prem'[1].stats[k].key = cache[i].key =>
                              /\ ~prem'[1].stats[k].loaded
                              /\ prem'[1].stats[k].meta = cache[i].meta]_vars

\* a premium estimation that was given a cached, non-empty list for one
\* tipset and had to load another one
C15_Witness ==
    /\ op = "premium" /\ prem # <<>>
    /\ \E k, l \in 1..Len(prem[1].stats) :
          /\ ~prem[1].stats[k].loaded
          /\ prem[1].stats[k].meta # <<>>
          /\ LoaderCalls(io, prem[1].stats[k].key) = {}
          /\ prem[1].stats[l].loaded

\* the prices of a list are in descending order
Descending(prices) ==
    \A k \in 1..(Len(prices) - 1) : prices[k].Price >= prices[k + 1].Price

\* C16: the list cached for a tipset is what the loader returned for it, in
\* content and in order, after any sequence of premium estimations (the sort
\* of the percentile selection rearranges a separate list); a tipset has at
\* most one entry and the cache never holds more than 50 entries.
C16_CachedListsUnchanged ==
    /\ \A i \in 1..Len(cache) :
          /\ cache[i].meta = TipSetAt(cache[i].key).Msgs
          /\ \A j \in 1..Len(cache) : cache[j].key = cache[i].key => j = i
    /\ Len(cache) <= GasPriceCacheSize
    /\ \A k \in 1..Len(prem) : Descending(prem[k].sorted)

\* a full cache that has dropped an entry and holds a list which is not in
\* the order the sort gave to the accumulated list
C16_Witness ==
    /\ op = "premium" /\ prem # <<>>
    /\ Len(cache) = GasPriceCacheSize
    /\ \E k \in 1..Len(prem[1].stats) :
          \A i \in 1..Len(cache) : cache[i].key # prem[1].stats[k].key
    /\ \E i \in 1..Len(cache) : cache[i].meta # <<>> /\ ~Descending(cache[i].meta)

\* the LoadTipSet calls of the call in progress, in order
TipLoads ==
    LET load(c) == c.call = "LoadTipSet"
    IN  SelectSeq(io, load)

\* C17: the walk of the premium estimator starts at the head and loads the
\* parents one after the other: at most 2 x nblocksincl of them, none below
\* height 0 (the parent of the genesis tipset is never asked for), and it
\* ends without error at height 0: when no collaborator fails, the call
\* returns a premium, on a chain shorter than the window too, having loaded
\* min(2 x nblocksincl, height of the head) parents.
C17_WalkStopsAtGenesis ==
    op = "premium" =>
        /\ io # <<>> /\ io[1].call = "ChainHead"
        /\ \A k \in 1..Len(TipLoads) :
              /\ TipLoads[k].key = ChainHeadHeight - k
              /\ TipLoads[k].key >= 0
        /\ (ret = "err") <=> (\E k \in 1..Len(io) : io[k].res = "err")
        /\ ret = "ok" =>
              /\ prem # <<>>
              /\ Len(TipLoads) = Min(2 * prem[1].nblocksincl, ChainHeadHeight)
              /\ Len(prem[1].stats) = Len(TipLoads)

\* a premium returned on a chain shorter than the window, the walk having
\* reached the genesis tipset
C17_Witness ==
    /\ op = "premium" /\ ret = "ok"
    /\ ChainHeadHeight > 1
    /\ 2 * prem[1].nblocksincl > ChainHeadHeight
    /\ TipLoads[Len(TipLoads)].key = 0

\* C18: before the jitter a selected premium below the minimum premium
\* (100000) is replaced by 2x the minimum when nblocksincl is 1, or 0, which
\* counts as 1, by 1.5x when it is 2 and by 1x when it is 3 or more; a
\* selected premium at or above the minimum is kept.  A window of prices
\* that are all zero gives 200000 for nblocksincl = 1.
C18_FloorStepTable ==
    \A k \in 1..Len(prem) :
        LET p == prem[k]
        IN  /\ p.floored = IF p.median >= 100000 THEN p.median
                           ELSE IF p.asked \in {0, 1} THEN 200000
                           ELSE IF p.asked = 2 THEN 150000
                           ELSE 100000
            /\ p.asked = 0 => p.nblocksincl = 1

\* the premium of a window of zero prices for an inclusion target of 0
C18_Witness ==
    /\ op = "premium" /\ prem # <<>>
    /\ prem[1].asked = 0
    /\ prem[1].sorted # <<>>
    /\ \A k \in 1..Len(prem[1].sorted) : prem[1].sorted[k].Price = 0
    /\ prem[1].median = 0
    /\ prem[1].floored = 2 * MinGasPremium

(* ---------------------------------------------------------------------- *)
\* the last two fee cap calls, when both had the same message premium
SamePremiumCalls ==
    /\ op = "feecap"
    /\ Len(fees) = 2
    /\ fees[1].gasPremium = fees[2].gasPremium
    /\ fees[1].parentBaseFee = fees[2].parentBaseFee

\* C19: for a fixed base fee and a fixed message premium the fee cap is
\* monotone in the delay window: of two calls, the one with the longer (or
\* equal) window does not get the lower fee cap.
C19_FeeCapMonotoneInDelay ==
    SamePremiumCalls =>
        /\ fees[1].maxqueueblks <= fees[2].maxqueueblks
              => ~LimbsLess(fees[2].feeCap, fees[1].feeCap)
        /\ fees[2].maxqueueblks <= fees[1].maxqueueblks
              => ~LimbsLess(fees[1].feeCap, fees[2].feeCap)

\* the same for delay windows whose factor has a uint64 value
C19_MonotoneWhileRepresentable ==
    (SamePremiumCalls /\ fees[1].maxqueueblks <= fees[2].maxqueueblks
        /\ fees[2].maxqueueblks <= Uint64Delay)
        => ~LimbsLess(fees[2].feeCap, fees[1].feeCap)


(* ---------------------------------------------------------------------- *)
\* how the state lookups for the refund (the last ParentState call of the
\* evaluation, and the GetActor call after it) ended
RefundLookup ==
    LET ps == {k \in 1..Len(io) : io[k].call = "ParentState"}
        last == CHOOSE k \in ps : \A j \in ps : j <= k
    IN  IF ps = {} THEN "none"
        ELSE IF io[last].res = "err" THEN "state"
        ELSE IF io[last + 1].res = "err" THEN "actor"
        ELSE "ok"

\* a single estimation whose evaluation ended with a receipt of exit code Ok
EvaluatedOk ==
    /\ op = "single"
    /\ evals # <<>>
    /\ evals[Len(evals)].res = "ok"

\* C20: the gas evalMessageGasLimit returns is the gas used times the upgrade
\* multiplier, plus exactly 76000 when the lookups succeed, the destination
\* is a payment-channel actor and the method is Collect, and plus 0 in every
\* other case; a failed lookup does not fail the estimation.
C20_RefundIsExact ==
    EvaluatedOk =>
        LET e == evals[Len(evals)]
            in == input[1].Msg
            corrected == (e.gasUsed * ((e.multi * 1024) \div 100)) \div 1024
            due == /\ RefundLookup = "ok"
                   /\ in.To = "paych"
                   /\ in.Method = MethodsPaychCollect
        IN  /\ e.gas = corrected + (IF due THEN 76000 ELSE 0)
            /\ GasLimitErrors(1) = <<>>
            /\ pc = "done"
            /\ due => e.multi = 100

\* a Collect message to a payment channel, evaluated inside the upgrade
\* window, got the gas used plus the refund
C20_Witness ==
    /\ EvaluatedOk
    /\ input[1].Msg.To = "paych"
    /\ input[1].Msg.Method = MethodsPaychCollect
    /\ RefundLookup = "ok"
    /\ evals[Len(evals)].ts <= upgradeHeight
    /\ evals[Len(evals)].gas = evals[Len(evals)].gasUsed + 76000
    /\ ret = "ok"


(* ---------------------------------------------------------------------- *)
\* the positions of the input whose message the call has worked on
Handled ==
    {p \in 1..Len(input) :
        /\ ~input[p].nil /\ ~input[p].msgNil
        /\ \/ op = "single" /\ pc = "done"
           \/ op = "batch" /\ p <= Len(results)}

\* the caller gave the amount a value
CallerSet(amount) == amount # EmptyInt /\ amount # 0

\* the spend cap has lowered the fee cap from a to b
LoweredByCap(a, b) ==
    \E k \in 1..Len(fees) :
        /\ fees[k].before.GasFeeCap = a
        /\ fees[k].after.GasFeeCap = b
        /\ fees[k].before.GasFeeCap > fees[k].maxFee \div fees[k].before.GasLimit

ReturnedGas(p) ==
    {evals[e].gas : e \in {k \in 1..Len(evals) :
                              evals[k].pos = p /\ evals[k].res = "ok"}}

\* the message at position p came without a gas limit and without an
\* over-estimation factor of its own
WantsDefaultFactor(p) ==
    /\ p \in 1..Len(input)
    /\ ~input[p].nil /\ ~input[p].msgNil
    /\ input[p].Msg.GasLimit = 0
    /\ input[p].specNil \/ input[p].Spec.GasOverEstimation = 0

\* C22: a message without a spec, or with a gasOverEstimation of zero, gets
\* the gas limit (simulated gas) * (default over-estimation of the pool), in
\* a single estimation and in a batch alike, and the call does not crash
\* (it may crash on an estimate message that is nil or has no message).
C22_DefaultOverestimationEverywhere ==
    /\ ret = "panic" =>
          \/ input[Max(idx, 1)].nil
          \/ input[Max(idx, 1)].msgNil
    /\ \A p \in 1..Len(input) :
          (WantsDefaultFactor(p) /\ ReturnedGas(p) # {}) =>
              \A gas \in ReturnedGas(p) :
                  \/ msgs[p].GasLimit = MulQuarters(gas, GasLimitOverestimation)
                  \/ op = "single" /\ ret = "err"


(* ---------------------------------------------------------------------- *)
\* the sum of the gas limits of the first k entries
RECURSIVE SumLimits(_, _)
SumLimits(prices, k) ==
    IF k = 0 THEN 0 ELSE prices[k].Limit + SumLimits(prices, k - 1)

\* the lists of the first k tipsets of a walk, one after the other, and the
\* number of their blocks
RECURSIVE WalkedPrices(_, _)
WalkedPrices(stats, k) ==
    IF k = 0 THEN <<>> ELSE WalkedPrices(stats, k - 1) \o stats[k].meta

RECURSIVE WalkedBlocks(_, _)
WalkedBlocks(stats, k) ==
    IF k = 0 THEN 0 ELSE WalkedBlocks(stats, k - 1) + TipSetAt(stats[k].key).Blocks

\* a and b hold the same entries, each as often
SameEntries(a, b) ==
    /\ Len(a) = Len(b)
    /\ \A i \in 1..Len(a) :
          Cardinality({j \in 1..Len(a) : a[j] = a[i]})
              = Cardinality({j \in 1..Len(b) : b[j] = a[i]})

\* the first entry that makes the running total negative, the last entry
\* when there is none
StopIndex(sorted, at) ==
    LET over == {k \in 1..Len(sorted) : at - SumLimits(sorted, k) < 0}
    IN  IF over = {} THEN Len(sorted)
        ELSE CHOOSE k \in over : \A j \in over : k <= j

\* C23: the selected premium of a premium estimation: the entries of the
\* walked tipsets in descending order of price; target = blockGasTarget *
\* blocks / 2 + blockGasTarget * blocks / 40; the entry at which the running
\* total turns negative, or the last entry; the average of its price and the
\* price before it when there is one and it is not zero, else its own price;
\* 0 for no entries.
C23_PercentileSelection ==
    \A k \in 1..Len(prem) :
        LET r == prem[k]
            blocks == WalkedBlocks(r.stats, Len(r.stats))
            at == (BlockGasTarget * blocks) \div 2 + (BlockGasTarget * blocks) \div 40
            stop == StopIndex(r.sorted, at)
        IN  /\ SameEntries(r.sorted, WalkedPrices(r.stats, Len(r.stats)))
            /\ Descending(r.sorted)
            /\ r.median =
                  IF r.sorted = <<>> THEN 0
                  ELSE IF stop > 1 /\ r.sorted[stop - 1].Price # 0
                  THEN (r.sorted[stop].Price + r.sorted[stop - 1].Price) \div 2
                  ELSE r.sorted[stop].Price

\* a selection that stopped before the end of the list and averaged two
\* different prices
C23_Witness ==
    /\ op = "premium" /\ prem # <<>>
    /\ LET r == prem[1]
           blocks == WalkedBlocks(r.stats, Len(r.stats))
           at == (BlockGasTarget * blocks) \div 2 + (BlockGasTarget * blocks) \div 40
           stop == StopIndex(r.sorted, at)
       IN  /\ 1 < stop /\ stop < Len(r.sorted)
           /\ r.sorted[stop].Price < r.sorted[stop - 1].Price
           /\ r.median = (r.sorted[stop].Price + r.sorted[stop - 1].Price) \div 2


(* ---------------------------------------------------------------------- *)
\* two selections over the same entries and the same number of blocks
SameSelectionInput(r1, r2) ==
    /\ SameEntries(WalkedPrices(r1.stats, Len(r1.stats)),
                   WalkedPrices(r2.stats, Len(r2.stats)))
    /\ WalkedBlocks(r1.stats, Len(r1.stats)) = WalkedBlocks(r2.stats, Len(r2.stats))

\* C24: the selected premium depends only on the entries and the number of
\* blocks: a premium estimation that follows another one over the same
\* entries and blocks selects the same premium, in whatever order the sort
\* leaves entries of equal price.
C24_SelectionIgnoresOrder ==
    [][\A i \in 1..Len(prem), j \in 1..Len(prem') :
          (op = "premium" /\ op' = "premium" /\ SameSelectionInput(prem[i], prem'[j]))
              => prem'[j].median = prem[i].median]_vars

\* no two entries of equal price and different gas limits
DistinctLimitsShareNoPrice(prices) ==
    \A i, j \in 1..Len(prices) :
        prices[i].Price = prices[j].Price => prices[i].Limit = prices[j].Limit

\* the same, for entries whose price determines their gas limit: holds
C24_OrderFreeWithoutPriceTies ==
    [][\A i \in 1..Len(prem), j \in 1..Len(prem') :
          (/\ op = "premium" /\ op' = "premium"
           /\ SameSelectionInput(prem[i], prem'[j])
           /\ DistinctLimitsShareNoPrice(prem[i].sorted))
              => prem'[j].median = prem[i].median]_vars


(* ---------------------------------------------------------------------- *)
\* what the lookup of the correction step answered in the last evaluation:
\* "none" when the step made no lookup (the refund step's lookup is the last)
CorrectionLookup ==
    LET ps == {k \in 1..Len(io) : io[k].call = "ParentState"}
        first == CHOOSE k \in ps : \A j \in ps : k <= j
    IN  IF Cardinality(ps) < 2 THEN "none"
        ELSE IF io[first].res = "err" THEN "state"
        ELSE IF io[first + 1].res = "err" THEN "actor"
        ELSE "ok"

\* the multipliers the claim lists for a storage-provider destination, in
\* hundredths
ClaimedMethodTable ==
    {<<3, 192>>, <<4, 172>>, <<6, 106>>, <<7, 120>>, <<16, 119>>, <<18, 173>>,
     <<23, 173>>, <<26, 115>>, <<27, 118>>}

\* the multiplier the claim gives the message of the last evaluation, in
\* hundredths, for a final target tip of height h
ClaimedMulti(h) ==
    LET in == input[1].Msg
        listed == {t \in ClaimedMethodTable : t[1] = in.Method}
    IN  IF ~(0 <= upgradeHeight - h /\ upgradeHeight - h <= 20) THEN 100
        ELSE IF in.Method = MethodSend THEN 300
        ELSE IF CorrectionLookup = "ok" /\ in.To = "miner" /\ listed # {}
        THEN (CHOOSE t \in listed : TRUE)[2]
        ELSE 100

\* the refund of the last evaluation
RefundGiven ==
    IF /\ RefundLookup = "ok"
       /\ input[1].Msg.To = "paych"
       /\ input[1].Msg.Method = MethodsPaychCollect
    THEN 76000 ELSE 0

\* C25: the gas of a successful evaluation before the refund is
\* (gasUsed * floor(m * 1024)) >> 10, where m is 1 unless the final target
\* tip's height h has 0 <= upgradeHeight - h <= 20, and inside that window m
\* is 3 for a plain transfer, the table's value for a listed method on a
\* storage-provider destination, and 1 otherwise, a failed or empty actor
\* lookup included; outside the window the gas equals the gas used.
C25_UpgradeCorrection ==
    EvaluatedOk =>
        LET e == evals[Len(evals)]
            m == ClaimedMulti(e.ts)
            inside == 0 <= upgradeHeight - e.ts /\ upgradeHeight - e.ts <= 20
        IN  /\ e.gas - RefundGiven = (e.gasUsed * ((m * 1024) \div 100)) \div 1024
            /\ ~inside => e.gas - RefundGiven = e.gasUsed
            /\ ~inside => CorrectionLookup = "none"

\* a listed method on a storage-provider destination, evaluated after one
\* expensive fork at a tip exactly 20 below the upgrade height while the tip
\* the evaluation started from is 19 below it
C25_Witness ==
    /\ EvaluatedOk
    /\ Len(evals) = 2
    /\ upgradeHeight - evals[2].ts = 20
    /\ input[1].Msg.To = "miner"
    /\ input[1].Msg.Method = 3
    /\ evals[2].gasUsed = 1000
    /\ evals[2].gas = 1919


(* ---------------------------------------------------------------------- *)
\* the base fee after n consecutive maximal increases, each block adding
\* 1/BaseFeeMaxChangeDenom of the base fee, rounded down as the chain rounds
RECURSIVE MaximalIncreases(_, _)
MaximalIncreases(baseFee, n) ==
    IF n = 0 THEN baseFee
    ELSE LET b == MaximalIncreases(baseFee, n - 1)
         IN  b + b \div BaseFeeMaxChangeDenom

\* the projections that added no premium, for delays up to the one the
\* estimation uses
BaseFeeProjections ==
    {k \in 1..Len(fees) : /\ fees[k].gasPremium \in {EmptyInt, 0}
                          /\ fees[k].maxqueueblks <= EstimateMaxQueueBlks}

\* C26: the base-fee part of the fee cap projected for a delay of n blocks is
\* at least the base fee after n consecutive maximal increases.
C26_ProjectionCoversMaximalIncreases ==
    op = "feecap" =>
        \A k \in BaseFeeProjections :
            ~LimbsLess(fees[k].feeCap,
                       LimbsOf(MaximalIncreases(fees[k].parentBaseFee,
                                                fees[k].maxqueueblks)))

\* the same for delays of at most one block, where the factor times 2^8 is a
\* whole number: holds
C26_CoversOneIncrease ==
    op = "feecap" =>
        \A k \in BaseFeeProjections :
            fees[k].maxqueueblks <= 1 =>
                fees[k].feeCap = LimbsOf(MaximalIncreases(fees[k].parentBaseFee,
                                                          fees[k].maxqueueblks))


(* ---------------------------------------------------------------------- *)
\* the concurrent calls that have returned, without and with an error
ReturnedStats == {g \in 1..MaxGetters : getters[g].pc = "done" /\ ~getters[g].err}
FailedStats == {g \in 1..MaxGetters : getters[g].pc = "done" /\ getters[g].err}

\* C27: in every interleaving of concurrent GetTSGasStats calls on the one
\* cache, a call that returns a list returns the list of the messages of the
\* tip it asked for, every cache entry holds the list of its own tip, the
\* cache holds at most one entry for a tip, and the step in which a call
\* returns the loader's error changes neither the cache nor what any other
\* call holds or returns.
C27_ConcurrentStatsAreSafe ==
    /\ [](/\ \A g \in ReturnedStats : getters[g].prices = TipSetAt(getters[g].ts).Msgs
          /\ \A i \in 1..Len(cache) : cache[i].meta = TipSetAt(cache[i].key).Msgs
          /\ \A i, j \in 1..Len(cache) : cache[i].key = cache[j].key => i = j)
    /\ [][\A g \in 1..MaxGetters :
             (g \in FailedStats' /\ g \notin FailedStats) =>
                 /\ cache' = cache
                 /\ \A o \in 1..MaxGetters \ {g} : getters'[o] = getters[o]]_vars

\* two calls for the same tip both missed the cache, both loaded and both
\* returned the list while a third call has returned the loader's error
C27_Witness ==
    \E g1, g2 \in ReturnedStats : \E g3 \in FailedStats :
        /\ g1 # g2
        /\ getters[g1].ts = getters[g2].ts
        /\ getters[g1].loaded /\ getters[g2].loaded
        /\ getters[g1].prices # <<>>
        /\ Len(cache) = 1


(* ---------------------------------------------------------------------- *)
\* the evaluator calls made for the message at position p go down the chain
\* and are no more than the height of the first target plus one
RetriesGoDown(p) ==
    LET es == EvalsAt(p)
    IN  /\ \A e \in 1..(Len(es) - 1) : es[e + 1].ts < es[e].ts
        /\ es # <<>> => Len(es) <= es[1].ts + 1

\* the tip loaded after an evaluator call is not above the call's target
NoMoveUp ==
    \A k \in 1..(Len(io) - 1) :
        (io[k].call = "CallWithGas" /\ io[k + 1].call = "ChainTipSet")
            => io[k + 1].key <= io[k].key

\* C28: the fork-retry loop terminates whatever tips the evaluator reports
\* the expensive fork at: every retry targets a tip of strictly lower height,
\* an estimation makes at most (height of the first target + 1) evaluator
\* calls, and the tip loaded for a retry is never above the tip just
\* evaluated.
C28_ForkRetryTerminates ==
    /\ pc # "hung"
    /\ \A p \in 1..Len(input) : RetriesGoDown(p)
    /\ NoMoveUp

\* the same while the loop has not asked for the parent of the genesis tip:
\* holds
C28_TerminatesAboveGenesis ==
    (\A k \in 1..(Len(io) - 1) :
        ~(io[k].call = "CallWithGas" /\ io[k].key = 0 /\ io[k].res = "fork"))
        => C28_ForkRetryTerminates


(* ---------------------------------------------------------------------- *)
\* a single estimation of a message that returned an error
SingleFailed ==
    /\ op = "single" /\ pc = "done" /\ ret = "err"
    /\ ~input[1].nil /\ ~input[1].msgNil

\* C29: when GasEstimateMessageGas returns an error the caller's message is
\* as the caller passed it: no gas limit or premium filled in by an earlier
\* step of the call stays on it.
C29_ErrorLeavesMessageUnchanged ==
    SingleFailed => msgs[1] = input[1].Msg

\* the same for an error of the gas limit step, the first one: holds
C29_LimitErrorLeavesMessageUnchanged ==
    (SingleFailed /\ errors[1].step = "estimating gas used")
        => msgs[1] = input[1].Msg


(* ---------------------------------------------------------------------- *)
\* the ancestor of from (from itself included) at height to when there is
\* one, otherwise the lowest ancestor above to
AncestorAtOrAbove(from, to) ==
    CHOOSE k \in 1..from :
        /\ HeightOf(k) >= to
        /\ \A j \in 1..from : HeightOf(j) >= to => k <= j

\* C30: whatever entries earlier lookups left in the index cache,
\* GetTipSetByHeight(from, to) returns what the direct parent walk
\* GetTipsetByHeightWithoutCache(from, to) returns: for 0 <= to <=
\* from.Height() the ancestor at height to when there is one and otherwise the
\* lowest ancestor above to, for to > from.Height() an error; and with a
\* loader that fails it returns an error exactly when the direct walk does.
C30_IndexMatchesDirectWalk ==
    (lastLookup.from # 0 /\ lastLookup.to >= 0) =>
        LET from == lastLookup.from
            to == lastLookup.to
            direct == GetTipsetByHeightWithoutCache(from, to, lastLookup.loadFails)
        IN  /\ (lastLookup.err = "") = (direct.err = "")
            /\ lastLookup.ts = direct.ts
            /\ to > HeightOf(from) => lastLookup.err # ""
            /\ (to <= HeightOf(from) /\ ~lastLookup.loadFails) =>
                  /\ lastLookup.err = ""
                  /\ lastLookup.ts = AncestorAtOrAbove(from, to)

\* a lookup further down than twice the skip length that found every entry
\* it needed in the cache and returned the lowest ancestor above a height
\* without a tipset
C30_Witness ==
    /\ lastLookup.from # 0 /\ lastLookup.err = "" /\ lastLookup.to >= 0
    /\ HeightOf(lastLookup.from) - lastLookup.to > 2 * skipLength
    /\ Cardinality(lastLookup.before) >= 2
    /\ lastLookup.cache = lastLookup.before
    /\ HeightOf(lastLookup.ts) > lastLookup.to


(* ---------------------------------------------------------------------- *)
\* the keys the skip loop looked up are of strictly descending height
HopsGoDown ==
    \A i \in 1..(Len(lastLookup.hops) - 1) :
        HeightOf(lastLookup.hops[i + 1]) < HeightOf(lastLookup.hops[i])

\* C31: a call of GetTipSetByHeight with a target height not above
\* from.Height() returns and leaves the index-cache lock free: every hop of
\* the skip loop goes to a key of strictly lower height, and the loop ends at
\* the genesis tipset instead of looking up the same key again.
C31_LookupTerminates ==
    (lastLookup.from # 0 /\ lastLookup.to <= HeightOf(lastLookup.from)) =>
        /\ ~lastLookup.hung
        /\ lastLookup.indexCacheLk = "free"
        /\ HopsGoDown

\* the same for target heights from 0 up, and the hops go down for every
\* target height: holds
C31_TerminatesFromZeroUp ==
    lastLookup.from # 0 =>
        /\ HopsGoDown
        /\ lastLookup.to >= 0 =>
              /\ ~lastLookup.hung
              /\ lastLookup.indexCacheLk = "free"


====
